---------------------------- MODULE Spec2Model ----------------------------
(***************************************************************************)
(* State-machine model of the Divine Wisdom Guide backend (religiousAI):   *)
(* crisis screening and chat turns (safety.py, qa.py, api.py, app.py),     *)
(* the multi-agent prompt pipeline (agents.py), accounts and sessions      *)
(* (auth.py) and the token-protected endpoints (api.py, community.py).     *)
(*                                                                         *)
(* Text is modelled as a sequence of one-character strings so that         *)
(* lower(), strip(), substring tests and the crisis regular expressions    *)
(* are computed on the characters, as the code computes them.              *)
(***************************************************************************)
EXTENDS Integers, Sequences, FiniteSets, TLC

(***************************************************************************)
(* Bounds of the model                                                     *)
(***************************************************************************)
MaxVisits == 1    \* chat turns counted per stored memory
MaxTime   == 9     \* last clock value (days)
MaxTokens == 2     \* session tokens handed out
MaxDocs   == 2     \* passages held by the vector store

VARIABLES
  \* configuration (config.py / environment), fixed after start-up
  USE_SUPABASE,      \* config.USE_SUPABASE
  LLM_PROVIDER,      \* config.LLM_PROVIDER: "gemini" or "ollama"
  gemini_model,      \* qa._gemini_model / agents._gemini_model is not None
  CLIENTS_SHARE_SESSION,  \* the Supabase clients of the process use one
                     \* session store (a property of the client library)
  \* chat
  memStore,          \* data/users/<user_id>.json, or the user_memory table
  stSession,         \* st.session_state of the Streamlit app
  inflight,          \* the chat request that each API worker is handling
  last,              \* description of the request handled by the last step
  \* multi-agent pipeline (agents.multi_agent_guidance), one run
  ag,
  \* accounts and sessions
  now,               \* datetime.now(), in days
  nextToken,         \* number of the next token that will be generated
  accounts,          \* data/accounts/<md5(email)>.json
  sessions,          \* data/sessions/<token>.json
  sbAuthUsers,       \* Supabase Auth: registered users
  sbTokens,          \* Supabase Auth: access tokens the server accepts
  sbUsers,           \* Supabase table public.users, by email
  sbStored,          \* session held by the Supabase client session store
  issued,            \* tokens returned by a successful signup or login
  loggedOut,         \* tokens that delete_session has been called with
  \* community
  profiles,          \* data/community/profiles/<md5(email)>.json
  sbProfiles,        \* Supabase table community_profiles, by user_id
  sbConnections,     \* Supabase table connections
  sbRequests         \* Supabase table connection_requests

configVars == <<USE_SUPABASE, LLM_PROVIDER, gemini_model, CLIENTS_SHARE_SESSION>>

chatVars == <<memStore, stSession, inflight>>

authVars == <<now, nextToken, accounts, sessions, sbAuthUsers, sbTokens, sbUsers,
              sbStored, issued, loggedOut>>

communityVars == <<profiles, sbProfiles, sbConnections, sbRequests>>

vars == <<configVars, chatVars, last, ag, authVars, communityVars>>

(***************************************************************************)
(* Text helpers (Python str.lower, str.strip, "in", slicing)               *)
(***************************************************************************)
LowerOf ==
  [A |-> "a", B |-> "b", C |-> "c", D |-> "d", E |-> "e", F |-> "f", G |-> "g",
   H |-> "h", I |-> "i", J |-> "j", K |-> "k", L |-> "l", M |-> "m", N |-> "n",
   O |-> "o", P |-> "p", Q |-> "q", R |-> "r", S |-> "s", T |-> "t", U |-> "u",
   V |-> "v", W |-> "w", X |-> "x", Y |-> "y", Z |-> "z"]

LowerChar(c) == IF c \in DOMAIN LowerOf THEN LowerOf[c] ELSE c

Lower(text) == [i \in 1..Len(text) |-> LowerChar(text[i])]

IsSpace(c) == c \in {" ", "\n", "\t"}

Strip(text) ==
  LET keep == {i \in 1..Len(text) : ~IsSpace(text[i])}
  IN  IF keep = {} THEN <<>>
      ELSE LET lo == CHOOSE i \in keep : \A j \in keep : i <= j
               hi == CHOOSE i \in keep : \A j \in keep : j <= i
           IN  SubSeq(text, lo, hi)

\* Python "needle in text" for a non-empty needle
Contains(text, needle) ==
  \E i \in 1..(Len(text) - Len(needle) + 1) :
     SubSeq(text, i, i + Len(needle) - 1) = needle

\* Python seq[-n:]
LastN(seq, n) ==
  IF Len(seq) <= n THEN seq ELSE SubSeq(seq, Len(seq) - n + 1, Len(seq))

InSeq(x, seq) == \E i \in 1..Len(seq) : seq[i] = x

(***************************************************************************)
(* safety.py: crisis detection                                             *)
(***************************************************************************)
\* The eight CRISIS_PATTERNS.  Every pattern has the form \b( a1 | a2 | ...)\b;
\* each alternative is written as the sequence of its literal pieces, which
\* the pattern joins with \s* (optional groups are expanded into separate
\* alternatives).
CRISIS_PATTERNS ==
  <<
    {
      <<<<"k","i","l","l">>, <<"s","e","l","f">>>>,
      <<<<"k","i","l","l">>, <<"m","y","s","e","l","f">>>>, <<<<"s","u","i","c","i","d","e">>>>,
      <<<<"s","u","i","c","i","d","a","l">>>>, <<<<"e","n","d">>, <<"m","y">>>>,
      <<<<"e","n","d">>, <<"i","t">>, <<"a","l","l">>>>,
      <<<<"w","a","n","t">>, <<"t","o">>, <<"d","i","e">>>>
    },
    {
      <<<<"c","u","t">>, <<"m","y","s","e","l","f">>>>,
      <<<<"c","u","t","t","i","n","g">>, <<"m","y","s","e","l","f">>>>,
      <<<<"h","u","r","t">>, <<"m","y","s","e","l","f">>>>,
      <<<<"h","u","r","t","i","n","g">>, <<"m","y","s","e","l","f">>>>,
      <<<<"s","e","l","f","h","a","r","m">>>>, <<<<"s","e","l","f","-","h","a","r","m">>>>,
      <<<<"s","e","l","f"," ","h","a","r","m">>>>
    },
    {
      <<<<"n","o">>, <<"r","e","a","s","o","n">>, <<"t","o">>, <<"l","i","v","e">>>>,
      <<<<"b","e","t","t","e","r">>, <<"o","f","f">>, <<"d","e","a","d">>>>,
      <<<<"c","a","n","'","t">>, <<"g","o">>, <<"o","n">>>>,
      <<<<"c","a","n","t">>, <<"g","o">>, <<"o","n">>>>
    },
    {
      <<<<"p","l","a","n","n","i","n","g">>, <<"t","o">>, <<"e","n","d">>>>,
      <<<<"p","l","a","n","n","i","n","g">>, <<"t","o">>, <<"k","i","l","l">>>>,
      <<<<"g","o","o","d","b","y","e">>, <<"l","e","t","t","e","r">>>>,
      <<<<"g","o","o","d","b","y","e">>, <<"n","o","t","e">>>>,
      <<<<"g","o","o","d","b","y","e">>, <<"w","o","r","l","d">>>>
    },
    {
      <<<<"c","a","n","'","t">>, <<"t","a","k","e">>, <<"i","t">>>>,
      <<<<"c","a","n","'","t">>, <<"t","a","k","e">>, <<"i","t">>, <<"a","n","y","m","o","r","e">>>>,
      <<<<"c","a","n","'","t">>, <<"t","a","k","e">>, <<"t","h","i","s">>>>,
      <<<<"c","a","n","'","t">>, <<"t","a","k","e">>, <<"t","h","i","s">>, <<"a","n","y","m","o","r","e">>>>,
      <<<<"c","a","n","t">>, <<"t","a","k","e">>, <<"i","t">>>>,
      <<<<"c","a","n","t">>, <<"t","a","k","e">>, <<"i","t">>, <<"a","n","y","m","o","r","e">>>>,
      <<<<"c","a","n","t">>, <<"t","a","k","e">>, <<"t","h","i","s">>>>,
      <<<<"c","a","n","t">>, <<"t","a","k","e">>, <<"t","h","i","s">>, <<"a","n","y","m","o","r","e">>>>,
      <<<<"g","i","v","e">>, <<"u","p">>>>, <<<<"g","i","v","i","n","g">>, <<"u","p">>>>
    },
    {
      <<<<"h","o","p","e","l","e","s","s">>>>, <<<<"n","o">>, <<"h","o","p","e">>>>,
      <<<<"l","o","s","t">>, <<"a","l","l">>, <<"h","o","p","e">>>>
    },
    {
      <<<<"b","e","i","n","g">>, <<"a","b","u","s","e","d">>>>,
      <<<<"b","e","i","n","g">>, <<"b","e","a","t","e","n">>>>,
      <<<<"b","e","i","n","g">>, <<"h","u","r","t">>>>,
      <<<<"s","o","m","e","o","n","e">>, <<"i","s">>, <<"h","u","r","t","i","n","g">>, <<"m","e">>>>
    },
    {
      <<<<"d","o","m","e","s","t","i","c">>, <<"v","i","o","l","e","n","c","e">>>>,
      <<<<"d","o","m","e","s","t","i","c">>, <<"a","b","u","s","e">>>>,
      <<<<"m","y">>, <<"p","a","r","t","n","e","r">>, <<"h","i","t","s">>>>,
      <<<<"m","y">>, <<"p","a","r","t","n","e","r">>, <<"h","u","r","t","s">>>>,
      <<<<"m","y">>, <<"p","a","r","t","n","e","r">>, <<"b","e","a","t","s">>>>,
      <<<<"m","y">>, <<"s","p","o","u","s","e">>, <<"h","i","t","s">>>>,
      <<<<"m","y">>, <<"s","p","o","u","s","e">>, <<"h","u","r","t","s">>>>,
      <<<<"m","y">>, <<"s","p","o","u","s","e">>, <<"b","e","a","t","s">>>>
    }
  >>

WordChars ==
  {"a","b","c","d","e","f","g","h","i","j","k","l","m","n","o","p","q","r","s","t",
   "u","v","w","x","y","z","0","1","2","3","4","5","6","7","8","9","_"}

\* \b between position p-1 and p (1-based; p ranges over 1..Len+1)
IsWordAt(text, p) == p >= 1 /\ p <= Len(text) /\ LowerChar(text[p]) \in WordChars

WordBoundary(text, p) == IsWordAt(text, p - 1) # IsWordAt(text, p)

\* positions reachable from p by \s*
RECURSIVE SkipSpaces(_, _)
SkipSpaces(text, p) ==
  IF p <= Len(text) /\ IsSpace(text[p])
    THEN {p} \cup SkipSpaces(text, p + 1)
    ELSE {p}

\* end positions (exclusive) of the matches of the pieces starting at p
RECURSIVE MatchPieces(_, _, _)
MatchPieces(text, p, pieces) ==
  IF pieces = <<>> THEN {p}
  ELSE LET piece == Head(pieces)
           q     == p + Len(piece)
       IN  IF q - 1 <= Len(text) /\ SubSeq(text, p, q - 1) = piece
             THEN IF Tail(pieces) = <<>> THEN {q}
                  ELSE UNION { MatchPieces(text, r, Tail(pieces)) :
                                 r \in SkipSpaces(text, q) }
             ELSE {}

\* pattern.search(text) for one alternative
SearchAlternative(text, pieces) ==
  \E p \in 1..Len(text) :
     /\ WordBoundary(text, p)
     /\ \E q \in MatchPieces(text, p, pieces) : WordBoundary(text, q)

PatternSearch(text, i) ==
  \E pieces \in CRISIS_PATTERNS[i] : SearchAlternative(text, pieces)

\* the messages that users send in the model
MsgHopeless == <<"I"," ","f","e","e","l"," ","h","o","p","e","l","e","s","s">>

MsgCompareCrisis == <<"C","o","m","p","a","r","e"," ","S","U","I","C","I","D","E">>

MsgWhatAboutGrief == <<"w","h","a","t"," ","a","b","o","u","t"," ","g","r","i","e","f">>

MsgGrief == <<"m","y"," ","g","r","i","e","f">>

MsgWork == <<"m","y"," ","j","o","b">>

Messages == {MsgHopeless, MsgCompareCrisis, MsgWhatAboutGrief, MsgGrief}

\* messages of the requests that two API workers handle at the same time
OverlapMessages == {MsgGrief, MsgWork}

NoCrisis == [is_crisis |-> FALSE, crisis_type |-> "None"]

detect_crisis(text) ==
  LET text_lower == Lower(text)
      hits == {i \in 1..Len(CRISIS_PATTERNS) : PatternSearch(text_lower, i)}
  IN  IF hits = {} THEN NoCrisis
      ELSE LET first == CHOOSE i \in hits : \A j \in hits : i <= j
           IN  [is_crisis |-> TRUE,
                crisis_type |-> IF first - 1 < 4 THEN "self_harm"
                                ELSE IF first - 1 < 6 THEN "severe_distress"
                                ELSE "abuse"]

\* detect_crisis(m) for each message of the model, evaluated once
crisis_of == [m \in Messages \cup OverlapMessages |-> detect_crisis(m)]

\* CRISIS_RESOURCES["default"], by its heading
CRISIS_RESOURCES ==
  <<"I","M","P","O","R","T","A","N","T",":"," ","Y","o","u"," ","A","r","e"," ","N","o","t"," ","A","l","o","n","e">>

get_crisis_response(crisis_type) == CRISIS_RESOURCES

ENABLE_CRISIS_DETECTION == TRUE

(***************************************************************************)
(* memory.py: themes and spiritual journey                                 *)
(***************************************************************************)
theme_keywords ==
  <<
    [theme |-> "family", keywords |-> {
      <<"f","a","m","i","l","y">>, <<"m","o","t","h","e","r">>, <<"f","a","t","h","e","r">>,
      <<"p","a","r","e","n","t">>, <<"c","h","i","l","d">>, <<"s","o","n">>,
      <<"d","a","u","g","h","t","e","r">>, <<"s","i","b","l","i","n","g">>,
      <<"b","r","o","t","h","e","r">>, <<"s","i","s","t","e","r">>
    }],
    [theme |-> "grief", keywords |-> {
      <<"g","r","i","e","f">>, <<"l","o","s","s">>, <<"d","e","a","t","h">>, <<"d","i","e","d">>,
      <<"m","o","u","r","n","i","n","g">>, <<"p","a","s","s","e","d"," ","a","w","a","y">>,
      <<"g","o","n","e">>, <<"l","o","s","i","n","g">>,
      <<"l","o","s","t"," ","s","o","m","e","o","n","e">>
    }],
    [theme |-> "forgiveness", keywords |-> {
      <<"f","o","r","g","i","v","e">>, <<"f","o","r","g","i","v","e","n","e","s","s">>,
      <<"r","e","s","e","n","t","m","e","n","t">>, <<"a","n","g","e","r">>,
      <<"h","u","r","t"," ","b","y">>, <<"b","e","t","r","a","y","e","d">>,
      <<"w","r","o","n","g","e","d">>
    }],
    [theme |-> "purpose", keywords |-> {
      <<"p","u","r","p","o","s","e">>, <<"m","e","a","n","i","n","g">>, <<"l","o","s","t">>,
      <<"d","i","r","e","c","t","i","o","n">>, <<"c","a","l","l","i","n","g">>,
      <<"d","e","s","t","i","n","y">>, <<"w","h","y"," ","a","m"," ","i"," ","h","e","r","e">>,
      <<"w","h","a","t"," ","i","s"," ","m","y"," ","p","u","r","p","o","s","e">>
    }],
    [theme |-> "relationships", keywords |-> {
      <<"r","e","l","a","t","i","o","n","s","h","i","p">>, <<"m","a","r","r","i","a","g","e">>,
      <<"p","a","r","t","n","e","r">>, <<"s","p","o","u","s","e">>, <<"f","r","i","e","n","d">>,
      <<"l","o","n","e","l","y">>, <<"d","a","t","i","n","g">>, <<"b","r","e","a","k","u","p">>
    }],
    [theme |-> "anxiety", keywords |-> {
      <<"a","n","x","i","o","u","s">>, <<"a","n","x","i","e","t","y">>,
      <<"w","o","r","r","i","e","d">>, <<"f","e","a","r">>, <<"s","c","a","r","e","d">>,
      <<"n","e","r","v","o","u","s">>, <<"p","a","n","i","c">>,
      <<"o","v","e","r","w","h","e","l","m","e","d">>
    }],
    [theme |-> "faith", keywords |-> {
      <<"f","a","i","t","h">>, <<"d","o","u","b","t">>, <<"b","e","l","i","e","v","e">>,
      <<"b","e","l","i","e","f">>, <<"t","r","u","s","t"," ","i","n"," ","g","o","d">>,
      <<"q","u","e","s","t","i","o","n","i","n","g">>,
      <<"s","p","i","r","i","t","u","a","l"," ","d","o","u","b","t">>
    }],
    [theme |-> "gratitude", keywords |-> {
      <<"g","r","a","t","e","f","u","l">>, <<"t","h","a","n","k","f","u","l">>,
      <<"g","r","a","t","i","t","u","d","e">>, <<"b","l","e","s","s","e","d">>,
      <<"a","p","p","r","e","c","i","a","t","e">>,
      <<"t","h","a","n","k","f","u","l"," ","f","o","r">>
    }],
    [theme |-> "work", keywords |-> {
      <<"w","o","r","k">>, <<"j","o","b">>, <<"c","a","r","e","e","r">>, <<"b","o","s","s">>,
      <<"c","o","w","o","r","k","e","r">>, <<"p","r","o","f","e","s","s","i","o","n">>,
      <<"e","m","p","l","o","y","m","e","n","t">>, <<"c","o","l","l","e","a","g","u","e">>
    }],
    [theme |-> "health", keywords |-> {
      <<"h","e","a","l","t","h">>, <<"s","i","c","k">>, <<"i","l","l","n","e","s","s">>,
      <<"d","i","s","e","a","s","e">>, <<"p","a","i","n">>, <<"s","u","f","f","e","r","i","n","g">>,
      <<"m","e","d","i","c","a","l">>, <<"t","r","e","a","t","m","e","n","t">>
    }],
    [theme |-> "guilt", keywords |-> {
      <<"g","u","i","l","t">>, <<"g","u","i","l","t","y">>, <<"s","h","a","m","e">>,
      <<"a","s","h","a","m","e","d">>, <<"r","e","g","r","e","t">>, <<"r","e","m","o","r","s","e">>,
      <<"s","i","n">>, <<"w","r","o","n","g","d","o","i","n","g">>
    }],
    [theme |-> "loneliness", keywords |-> {
      <<"l","o","n","e","l","y">>, <<"a","l","o","n","e">>, <<"i","s","o","l","a","t","e","d">>,
      <<"n","o"," ","o","n","e">>, <<"n","o","b","o","d","y">>, <<"e","m","p","t","y">>,
      <<"d","i","s","c","o","n","n","e","c","t","e","d">>
    }],
    [theme |-> "hope", keywords |-> {
      <<"h","o","p","e">>, <<"h","o","p","e","f","u","l">>,
      <<"o","p","t","i","m","i","s","t","i","c">>, <<"f","u","t","u","r","e">>,
      <<"b","e","t","t","e","r">>, <<"i","m","p","r","o","v","e">>, <<"h","e","a","l","i","n","g">>
    }],
    [theme |-> "peace", keywords |-> {
      <<"p","e","a","c","e">>, <<"c","a","l","m">>, <<"s","e","r","e","n","i","t","y">>,
      <<"t","r","a","n","q","u","i","l">>, <<"i","n","n","e","r"," ","p","e","a","c","e">>,
      <<"s","t","i","l","l","n","e","s","s">>
    }]
  >>
THEMES_KEEP == 15

CONCERNS_KEEP == 5

MILESTONES_KEEP == 10

MILESTONE_EVERY == 10

\* "" and None are both falsy for the code; both are the empty text here
None == <<>>

\* _get_default_memory; conversations, journal entries and personality traits
\* are never written by a chat turn and are left out
DefaultMemory ==
  [email |-> None, visit_count |-> 0, themes |-> <<>>,
   primary_concerns |-> <<>>, growth_areas |-> <<>>, milestones |-> <<>>]

\* the themes whose keywords occur in a text, in the order of theme_keywords
ThemesIn(text_lower) ==
  {i \in 1..Len(theme_keywords) :
     \E keyword \in theme_keywords[i].keywords : Contains(text_lower, keyword)}

\* ThemesIn for each message of the model, evaluated once
themes_of == [m \in Messages \cup OverlapMessages |-> ThemesIn(Lower(m))]

RECURSIVE ThemesFrom(_, _, _)
ThemesFrom(themes, found, i) ==
  IF i > Len(theme_keywords) THEN themes
  ELSE LET theme == theme_keywords[i].theme
       IN  ThemesFrom(IF i \in found /\ ~InSeq(theme, themes)
                        THEN Append(themes, theme) ELSE themes,
                      found, i + 1)

update_themes(memory, text) ==
  [memory EXCEPT !.themes = LastN(ThemesFrom(@, themes_of[text], 1), THEMES_KEEP)]

RECURSIVE ConcernsFrom(_, _, _)
ConcernsFrom(concerns, themes, i) ==
  IF i > Len(themes) THEN concerns
  ELSE ConcernsFrom(IF InSeq(themes[i], concerns) THEN concerns
                    ELSE LastN(Append(concerns, themes[i]), CONCERNS_KEEP),
                    themes, i + 1)

\* theme_counts stays empty: no chat turn appends to memory["conversations"]
\* and no endpoint writes the chat tables, so growth_areas keeps its value
update_spiritual_journey(memory) ==
  LET visit_count == memory.visit_count
      milestone   == visit_count      \* "Completed <visit_count> conversations"
  IN  [memory EXCEPT
         !.primary_concerns = ConcernsFrom(@, memory.themes, 1),
         !.milestones =
            IF visit_count > 0 /\ visit_count % MILESTONE_EVERY = 0
                 /\ ~InSeq(milestone, @)
              THEN LastN(Append(@, milestone), MILESTONES_KEEP)
              ELSE @]

\* extract_personality_insights returns before writing: all_questions is empty
add_exchange(memory, question) ==
  update_spiritual_journey(update_themes(memory, question))

\* md5(...).hexdigest()[:12] of a session id or of a normalized email
get_user_id(session_id) == session_id

\* users.id of the public.users row of an email
Uuid(email) == <<"#">> \o email

\* the row kept by the user_memory table has no email and no visit_count
load_user_memory(user_id) ==
  IF user_id \in DOMAIN memStore
    THEN IF USE_SUPABASE
           THEN [memStore[user_id] EXCEPT !.email = None, !.visit_count = 0]
           ELSE memStore[user_id]
    ELSE DefaultMemory

save_user_memory(store, user_id, memory) ==
  LET row == IF USE_SUPABASE
               THEN [memory EXCEPT !.email = None, !.visit_count = 0]
               ELSE memory
  IN  [u \in DOMAIN store \cup {user_id} |->
         IF u = user_id THEN row ELSE store[u]]

SeekerContext == <<"S","E","E","K","E","R">>

get_context_for_llm(memory) ==
  IF \/ memory.visit_count > 1
     \/ memory.primary_concerns # <<>>
     \/ memory.growth_areas # <<>>
     \/ memory.themes # <<>>
    THEN SeekerContext
    ELSE <<>>

(***************************************************************************)
(* auth.py: accounts and sessions                                          *)
(***************************************************************************)
MIN_PASSWORD_LENGTH == 6

SESSION_DAYS == 7

DefaultPreferences == "default"

Digits == <<"0","1","2","3","4","5","6","7","8","9">>

\* secrets.token_urlsafe(32): the n-th token generated; all are distinct
TokenOf(n) == <<"t", Digits[(n % 10) + 1]>>

Bearer == <<"B","e","a","r","e","r"," ">>

StartsWith(text, prefix) ==
  Len(text) >= Len(prefix) /\ SubSeq(text, 1, Len(prefix)) = prefix

\* text.replace(old, "")
RECURSIVE Remove(_, _)
Remove(text, old) ==
  IF text = <<>> THEN <<>>
  ELSE IF StartsWith(text, old)
         THEN Remove(SubSeq(text, Len(old) + 1, Len(text)), old)
         ELSE <<Head(text)>> \o Remove(Tail(text), old)

\* email.lower().strip()
Normalize(email) == Strip(Lower(email))

\* get_user_file(email): md5(email.lower()) names the account file
UserFile(email) == Lower(email)

Ok(message) == [success |-> TRUE, message |-> message]

Fail(message) == [success |-> FALSE, message |-> message]

\* _create_user_file_based without the test for an existing account file
_create_user_file_based_overwrite(email_in, password, name) ==
  LET email == Normalize(email_in)
  IN  IF Len(password) < MIN_PASSWORD_LENGTH
        THEN [result |-> Fail("Password must be at least 6 characters"),
              accounts |-> accounts]
      ELSE [result |-> Ok("Account created successfully"),
            accounts |->
              [f \in DOMAIN accounts \cup {UserFile(email)} |->
                 IF f = UserFile(email)
                   THEN [email |-> email, password_hash |-> password,
                         preferences |-> DefaultPreferences]
                   ELSE accounts[f]]]

\* result, and the account files after the call
_create_user_file_based(email_in, password, name) ==
  LET email == Normalize(email_in)
  IN  IF UserFile(email) \in DOMAIN accounts
        THEN [result |-> Fail("An account with this email already exists"),
              accounts |-> accounts]
      ELSE IF Len(password) < MIN_PASSWORD_LENGTH
        THEN [result |-> Fail("Password must be at least 6 characters"),
              accounts |-> accounts]
      ELSE [result |-> Ok("Account created successfully"),
            accounts |->
              [f \in DOMAIN accounts \cup {UserFile(email)} |->
                 IF f = UserFile(email)
                   THEN [email |-> email, password_hash |-> password,
                         preferences |-> DefaultPreferences]
                   ELSE accounts[f]]]

\* supabase.auth.sign_up raises "User already registered" for a known email
create_user_supabase(email_in, password, name) ==
  LET email == Normalize(email_in)
  IN  IF Len(password) < MIN_PASSWORD_LENGTH
        THEN [result |-> Fail("Password must be at least 6 characters"),
              sbAuthUsers |-> sbAuthUsers, sbUsers |-> sbUsers]
      ELSE IF email \in DOMAIN sbAuthUsers
        THEN [result |-> Fail("An account with this email already exists"),
              sbAuthUsers |-> sbAuthUsers, sbUsers |-> sbUsers]
      ELSE [result |-> Ok("Account created successfully"),
            sbAuthUsers |->
              [e \in DOMAIN sbAuthUsers \cup {email} |->
                 IF e = email THEN password ELSE sbAuthUsers[e]],
            sbUsers |->
              [e \in DOMAIN sbUsers \cup {email} |->
                 IF e = email THEN [id |-> Uuid(email),
                                    preferences |-> DefaultPreferences]
                 ELSE sbUsers[e]]]

\* verify_password: the salted hash matches exactly for the stored password
_authenticate_user_file_based(email_in, password) ==
  LET email == Normalize(email_in)
  IN  IF UserFile(email) \notin DOMAIN accounts
        THEN [success |-> FALSE, message |-> "No account found with this email"]
      ELSE IF accounts[UserFile(email)].password_hash = password
        THEN [success |-> TRUE, message |-> "Login successful"]
      ELSE [success |-> FALSE, message |-> "Incorrect password"]

\* supabase.auth.sign_in_with_password raises "Invalid login credentials"
authenticate_user_supabase(email_in, password) ==
  LET email == Normalize(email_in)
  IN  IF email \in DOMAIN sbAuthUsers /\ sbAuthUsers[email] = password
        THEN [success |-> TRUE, message |-> "Login successful"]
        ELSE [success |-> FALSE, message |-> "Invalid email or password"]

\* the session file written for a token; created_at and expires_at come from
\* two successive readings of the clock
_create_session_file_based(email, token, read1, read2) ==
  [t \in DOMAIN sessions \cup {token} |->
     IF t = token
       THEN [email |-> Lower(email), created_at |-> read1,
             expires_at |-> read2 + SESSION_DAYS]
       ELSE sessions[t]]

\* supabase.auth.get_session() on the client that a get_supabase_client()
\* call returns: every call builds a new client; its session store is its
\* own, and empty, or the one store that all the clients of the process use
ClientSession(stored) == IF CLIENTS_SHARE_SESSION THEN stored ELSE None

\* create_session, Supabase branch: the access token of that session, or ""
create_session_supabase(email, stored) == ClientSession(stored)

Invalid == [is_valid |-> FALSE, email |-> None]

\* _validate_session_file_based with ">=" for ">" in the test of expires_at
_validate_session_file_based_early(token) ==
  IF token \notin DOMAIN sessions
    THEN [result |-> Invalid, sessions |-> sessions]
  ELSE IF now >= sessions[token].expires_at
    THEN [result |-> Invalid,
          sessions |-> [t \in DOMAIN sessions \ {token} |-> sessions[t]]]
  ELSE [result |-> [is_valid |-> TRUE, email |-> sessions[token].email],
        sessions |-> sessions]

\* result, and the session files after the call
_validate_session_file_based(token) ==
  IF token \notin DOMAIN sessions
    THEN [result |-> Invalid, sessions |-> sessions]
  ELSE IF now > sessions[token].expires_at
    THEN [result |-> Invalid,
          sessions |-> [t \in DOMAIN sessions \ {token} |-> sessions[t]]]
  ELSE [result |-> [is_valid |-> TRUE, email |-> sessions[token].email],
        sessions |-> sessions]

\* supabase.auth.get_user(jwt) answers for the access tokens the server issued
validate_session_supabase(token_in) ==
  LET token == IF StartsWith(token_in, Bearer)
                 THEN SubSeq(token_in, 8, Len(token_in)) ELSE token_in
  IN  IF token \in DOMAIN sbTokens /\ sbTokens[token] # None
        THEN [is_valid |-> TRUE, email |-> sbTokens[token]]
        ELSE Invalid

validate_session(token) ==
  IF ~USE_SUPABASE THEN _validate_session_file_based(token)
  ELSE [result |-> validate_session_supabase(token), sessions |-> sessions]

_delete_session_file_based(token) ==
  [t \in DOMAIN sessions \ {token} |-> sessions[t]]

\* delete_session, Supabase branch: supabase.auth.sign_out() on a new client
\* ends the session that client holds, if any; the token argument is not used
delete_session_supabase(token) ==
  LET held == ClientSession(sbStored)
  IN  IF held = None
        THEN [sbTokens |-> sbTokens, sbStored |-> sbStored]
        ELSE [sbTokens |-> [t \in DOMAIN sbTokens \ {held} |-> sbTokens[t]],
              sbStored |-> None]

\* get_email_from_auth that takes the email of a session file without
\* looking at expires_at
get_email_from_auth_no_expiry(authorization) ==
  IF authorization = None
    THEN [status |-> 401, email |-> None, sessions |-> sessions]
  ELSE LET token == IF StartsWith(authorization, Bearer)
                      THEN Remove(authorization, Bearer) ELSE authorization
           v     == validate_session(token)
       IN  IF ~USE_SUPABASE /\ token \in DOMAIN sessions
             THEN [status |-> 200, email |-> sessions[token].email,
                   sessions |-> sessions]
           ELSE IF ~v.result.is_valid \/ v.result.email = None
             THEN [status |-> 401, email |-> None, sessions |-> v.sessions]
             ELSE [status |-> 200, email |-> v.result.email,
                   sessions |-> v.sessions]

\* get_email_from_auth: 401 unless the token validates
get_email_from_auth(authorization) ==
  IF authorization = None
    THEN [status |-> 401, email |-> None, sessions |-> sessions]
  ELSE LET token == IF StartsWith(authorization, Bearer)
                      THEN Remove(authorization, Bearer) ELSE authorization
           v     == validate_session(token)
       IN  IF ~v.result.is_valid \/ v.result.email = None
             THEN [status |-> 401, email |-> None, sessions |-> v.sessions]
             ELSE [status |-> 200, email |-> v.result.email,
                   sessions |-> v.sessions]

(***************************************************************************)
(* api.py: detect_comparison_request                                       *)
(***************************************************************************)
\* ("what does ... say" and "what about") evaluates to "what about"
comparison_patterns ==
  {
    <<"c","o","m","p","a","r","e">>, <<"w","h","a","t"," ","a","b","o","u","t">>,
    <<"h","o","w"," ","d","o"," ","d","i","f","f","e","r","e","n","t">>,
    <<"d","i","f","f","e","r","e","n","t"," ","r","e","l","i","g","i","o","n","s">>,
    <<"d","i","f","f","e","r","e","n","t"," ","f","a","i","t","h","s">>,
    <<"a","c","r","o","s","s"," ","t","r","a","d","i","t","i","o","n","s">>,
    <<"a","c","r","o","s","s"," ","r","e","l","i","g","i","o","n","s">>,
    <<"v","a","r","i","o","u","s"," ","r","e","l","i","g","i","o","n","s">>,
    <<"m","u","l","t","i","p","l","e"," ","f","a","i","t","h","s">>
  }

what_does == <<"w","h","a","t"," ","d","o","e","s">>

what_about == <<"w","h","a","t"," ","a","b","o","u","t">>

tradition_keywords ==
  <<
    [keyword |-> <<"c","h","r","i","s","t","i","a","n","i","t","y">>, tradition |-> "Christianity"],
    [keyword |-> <<"c","h","r","i","s","t","i","a","n">>, tradition |-> "Christianity"],
    [keyword |-> <<"b","i","b","l","e">>, tradition |-> "Christianity"],
    [keyword |-> <<"i","s","l","a","m">>, tradition |-> "Islam"],
    [keyword |-> <<"m","u","s","l","i","m">>, tradition |-> "Islam"],
    [keyword |-> <<"q","u","r","a","n">>, tradition |-> "Islam"],
    [keyword |-> <<"b","u","d","d","h","i","s","m">>, tradition |-> "Buddhism"],
    [keyword |-> <<"b","u","d","d","h","i","s","t">>, tradition |-> "Buddhism"],
    [keyword |-> <<"b","u","d","d","h","a">>, tradition |-> "Buddhism"],
    [keyword |-> <<"h","i","n","d","u","i","s","m">>, tradition |-> "Hinduism"],
    [keyword |-> <<"h","i","n","d","u">>, tradition |-> "Hinduism"],
    [keyword |-> <<"g","i","t","a">>, tradition |-> "Hinduism"],
    [keyword |-> <<"j","u","d","a","i","s","m">>, tradition |-> "Judaism"],
    [keyword |-> <<"j","e","w","i","s","h">>, tradition |-> "Judaism"],
    [keyword |-> <<"t","o","r","a","h">>, tradition |-> "Judaism"],
    [keyword |-> <<"t","a","o","i","s","m">>, tradition |-> "Taoism"],
    [keyword |-> <<"t","a","o","i","s","t">>, tradition |-> "Taoism"],
    [keyword |-> <<"t","a","o">>, tradition |-> "Taoism"],
    [keyword |-> <<"s","i","k","h","i","s","m">>, tradition |-> "Sikhism"],
    [keyword |-> <<"s","i","k","h">>, tradition |-> "Sikhism"],
    [keyword |-> <<"s","t","o","i","c","i","s","m">>, tradition |-> "Stoicism"],
    [keyword |-> <<"s","t","o","i","c">>, tradition |-> "Stoicism"],
    [keyword |-> <<"c","o","n","f","u","c","i","a","n","i","s","m">>, tradition |-> "Confucianism"],
    [keyword |-> <<"c","o","n","f","u","c","i","a","n">>, tradition |-> "Confucianism"]
  >>

DefaultComparison == <<"Christianity", "Islam", "Buddhism", "Hinduism">>

RECURSIVE MentionedFrom(_, _, _)
MentionedFrom(mentioned, message_lower, i) ==
  IF i > Len(tradition_keywords) THEN mentioned
  ELSE LET entry == tradition_keywords[i]
       IN  MentionedFrom(IF Contains(message_lower, entry.keyword)
                              /\ ~InSeq(entry.tradition, mentioned)
                           THEN Append(mentioned, entry.tradition)
                           ELSE mentioned,
                         message_lower, i + 1)

\* the topic is the message with the comparison words removed; it only fills
\* the prompt and is left out
detect_comparison_request(message) ==
  LET message_lower == Lower(message)
      is_comparison ==
        \/ \E pattern \in comparison_patterns : Contains(message_lower, pattern)
        \/ Contains(message_lower, what_does) /\ Contains(message_lower, what_about)
      mentioned == MentionedFrom(<<>>, message_lower, 1)
  IN  IF ~is_comparison THEN [is_comparison |-> FALSE, traditions |-> <<>>]
      ELSE [is_comparison |-> TRUE,
            traditions |-> IF Len(mentioned) < 2 THEN DefaultComparison
                           ELSE mentioned]

\* detect_comparison_request(m) for each message of the model, evaluated once
comparison_of ==
  [m \in Messages \cup OverlapMessages |-> detect_comparison_request(m)]

(***************************************************************************)
(* The language model and the vector store                                 *)
(***************************************************************************)
GeminiNotConfigured ==
  <<"E","r","r","o","r",":"," ","G","e","m","i","n","i"," ","A","P","I"," ","k","e","y"," ","n","o","t"," ","c","o","n","f","i","g","u","r","e","d",".">>

RephraseFallback ==
  <<"C","o","u","l","d"," ","y","o","u"," ","p","l","e","a","s","e"," ","r","e","p","h","r","a","s","e"," ","y","o","u","r"," ","q","u","e","s","t","i","o","n","?">>

DeepMattersFallback ==
  <<"P","l","e","a","s","e"," ","s","h","a","r","e"," ","m","o","r","e"," ","a","b","o","u","t"," ","w","h","a","t"," ","g","u","i","d","a","n","c","e"," ","y","o","u"," ","s","e","e","k",".">>

SeekingWisdom ==
  <<"S","e","e","k","i","n","g"," ","w","i","s","d","o","m",".",".",".">>

WisdomGuides ==
  <<"W","i","s","d","o","m"," ","g","u","i","d","e","s"," ","u","s"," ","f","o","r","w","a","r","d",".">>

NoPassagesFound ==
  <<"I"," ","c","o","u","l","d","n","'","t"," ","f","i","n","d"," ","r","e","l","e","v","a","n","t"," ","p","a","s","s","a","g","e","s"," ","o","n"," ","t","h","i","s"," ","t","o","p","i","c"," ","a","c","r","o","s","s"," ","t","r","a","d","i","t","i","o","n","s",".">>

\* what one request to the provider can give: a text (possibly padded with
\* white space), a reply without content, or an exception
LLMTexts == { <<"o","k">>, <<" ","a","m","e","n","\n">> }

LLMResults ==
  { [kind |-> "text", text |-> t] : t \in LLMTexts }
    \cup { [kind |-> "empty", text |-> <<>>], [kind |-> "raise", text |-> <<>>] }

\* what a similarity search can give: the traditions of the passages found
DocLists == { <<>>, <<"Christianity">> }

Returned(text) == [raised |-> FALSE, text |-> text]

Raised == [raised |-> TRUE, text |-> <<>>]

\* qa.generate_with_llm
generate_with_llm(result) ==
  IF LLM_PROVIDER = "gemini"
    THEN IF ~gemini_model THEN Returned(GeminiNotConfigured)
         ELSE IF result.kind = "raise" THEN Returned(RephraseFallback)
         ELSE IF result.kind = "empty" THEN Returned(DeepMattersFallback)
         ELSE Returned(result.text)
    ELSE IF result.kind = "raise" THEN Raised
         ELSE Returned(result.text)

\* agents.generate_agent_response
generate_agent_response(result) ==
  IF LLM_PROVIDER = "gemini"
    THEN IF ~gemini_model THEN Returned(GeminiNotConfigured)
         ELSE IF result.kind = "raise" THEN Returned(SeekingWisdom)
         ELSE IF result.kind = "empty" THEN Returned(WisdomGuides)
         ELSE Returned(result.text)
    ELSE IF result.kind = "raise" THEN Raised
         ELSE Returned(result.text)

(***************************************************************************)
(* agents.py: the multi-agent pipeline                                     *)
(***************************************************************************)
AGENT_ORDER == <<"compassion", "scripture", "scholar", "guidance", "synthesis">>

NL2 == <<"\n", "\n">>

NoOutputs ==
  [compassion |-> <<>>, scripture |-> <<>>, scholar |-> <<>>,
   guidance |-> <<>>, synthesis |-> <<>>]

\* the question and the values a run_*_agent function puts into its template
AgentPrompt(agent, question, inputs) ==
  [agent |-> agent, question |-> question, inputs |-> inputs]

\* StagePrompt with the guidance stage's context joined in another order
StagePrompt_scripture_first(i, question, scripture_context, user_context, out) ==
  CASE i = 1 -> AgentPrompt("compassion", question, <<user_context>>)
    [] i = 2 -> AgentPrompt("scripture", question, <<scripture_context>>)
    [] i = 3 -> AgentPrompt("scholar", question, <<out.scripture>>)
    [] i = 4 -> AgentPrompt("guidance", question,
                  <<out.scripture \o NL2 \o out.compassion \o NL2 \o out.scholar>>)
    [] i = 5 -> AgentPrompt("synthesis", question,
                  <<out.compassion, out.scripture, out.scholar, out.guidance>>)

\* the prompt of stage i of multi_agent_guidance, from the run's local values
StagePrompt(i, question, scripture_context, user_context, out) ==
  CASE i = 1 -> AgentPrompt("compassion", question, <<user_context>>)
    [] i = 2 -> AgentPrompt("scripture", question, <<scripture_context>>)
    [] i = 3 -> AgentPrompt("scholar", question, <<out.scripture>>)
    [] i = 4 -> AgentPrompt("guidance", question,
                  <<out.compassion \o NL2 \o out.scripture \o NL2 \o out.scholar>>)
    [] i = 5 -> AgentPrompt("synthesis", question,
                  <<out.compassion, out.scripture, out.scholar, out.guidance>>)

\* every run_*_agent returns response.strip()
StoreOutput(out, i, text) == [out EXCEPT ![AGENT_ORDER[i]] = Strip(text)]

NewRun(question, scripture_context, user_context) ==
  [question |-> question, scripture_context |-> scripture_context,
   user_context |-> user_context, out |-> NoOutputs, calls |-> <<>>,
   done |-> 0, in_flight |-> 0, raised |-> FALSE]

\* stage i sends its request
CallStage(run, i) ==
  [run EXCEPT
     !.calls = Append(@, StagePrompt(i, run.question, run.scripture_context,
                                     run.user_context, run.out)),
     !.in_flight = @ + 1]

\* the request of stage i comes back
ReturnStage(run, i, result) ==
  LET g == generate_agent_response(result)
  IN  IF g.raised
        THEN [run EXCEPT !.in_flight = @ - 1, !.raised = TRUE]
        ELSE [run EXCEPT !.in_flight = @ - 1, !.done = i,
                         !.out = StoreOutput(@, i, g.text)]

RECURSIVE RunStages(_, _, _)
RunStages(run, results, i) ==
  IF i > Len(AGENT_ORDER) \/ run.raised THEN run
  ELSE RunStages(ReturnStage(CallStage(run, i), i, results[i]), results, i + 1)

\* the whole of multi_agent_guidance, given what the five requests give
multi_agent_guidance(question, scripture_context, user_context, results) ==
  RunStages(NewRun(question, scripture_context, user_context), results, 1)

(***************************************************************************)
(* qa.py: ask_question, ask_question_multi_agent, compare_traditions       *)
(***************************************************************************)
\* qa.py sets it when "from agents import ..." succeeds
MULTI_AGENT_AVAILABLE == TRUE

Answer(response, docs, is_crisis, nRetrieve, nLLM, raised) ==
  [response |-> response, docs |-> docs, is_crisis |-> is_crisis,
   nRetrieve |-> nRetrieve, nLLM |-> nLLM, raised |-> raised]

\* ask_question with the retrieval placed before the crisis check
ask_question_retrieve_first(question, docs, result) ==
  IF ENABLE_CRISIS_DETECTION /\ crisis_of[question].is_crisis
    THEN Answer(get_crisis_response(crisis_of[question].crisis_type),
                <<>>, TRUE, 1, 0, FALSE)
    ELSE LET g == generate_with_llm(result)
         IN  Answer(g.text, docs, FALSE, 1, 1, g.raised)

\* the clarification and the humility reminder only decorate the response
\* text and are left out
ask_question(question, docs, result) ==
  IF ENABLE_CRISIS_DETECTION /\ crisis_of[question].is_crisis
    THEN Answer(get_crisis_response(crisis_of[question].crisis_type),
                <<>>, TRUE, 0, 0, FALSE)
    ELSE LET g == generate_with_llm(result)
         IN  Answer(g.text, docs, FALSE, 1, 1, g.raised)

\* context_to_text(docs): one block per passage
context_to_text(docs) == docs

ask_question_multi_agent(question, docs, user_memory, results) ==
  IF ~MULTI_AGENT_AVAILABLE THEN ask_question(question, docs, results[1])
  ELSE IF ENABLE_CRISIS_DETECTION /\ crisis_of[question].is_crisis
    THEN Answer(get_crisis_response(crisis_of[question].crisis_type),
                <<>>, TRUE, 0, 0, FALSE)
  ELSE LET run == multi_agent_guidance(question, context_to_text(docs),
                                       get_context_for_llm(user_memory), results)
       IN  Answer(run.out.synthesis, docs, FALSE, 1, Len(run.calls), run.raised)

\* retrieve_comparative searches once per tradition
compare_traditions(traditions, docs, result) ==
  IF docs = <<>>
    THEN Answer(NoPassagesFound, <<>>, FALSE, Len(traditions), 0, FALSE)
    ELSE LET g == generate_with_llm(result)
         IN  Answer(g.text, docs, FALSE, Len(traditions), 1, g.raised)

(***************************************************************************)
(* Inputs                                                                  *)
(***************************************************************************)
SessionId == <<"s","1">>

StUserId == <<"s","t">>

EmailA == <<"a","@","x">>

EmailB == <<"b","@","x">>

\* spellings of the two addresses that a client may send
EmailInputs == { EmailA, <<" ","A","@","x">>, EmailB }

Password6 == <<"1","2","3","4","5","6">>

Passwords == { <<"1","2","3","4","5">>, Password6 }

UnknownToken == <<"z","z">>

(***************************************************************************)
(* The request handled by a step                                           *)
(***************************************************************************)
NoRequest ==
  [entry |-> "none", route |-> "none", message |-> <<>>, status |-> 0,
   is_crisis |-> FALSE, response |-> <<>>, docs |-> <<>>, nRetrieve |-> 0,
   nLLM |-> 0, add_exchange |-> FALSE, email |-> <<>>, password |-> <<>>,
   token |-> <<>>, authorization |-> <<>>, detail |-> ""]

ChatRequest(entry, route, message, r, saved) ==
  [NoRequest EXCEPT !.entry = entry, !.route = route, !.message = message,
     !.status = IF r.raised THEN 500 ELSE 200,
     !.is_crisis = r.is_crisis,
     !.response = IF r.raised THEN <<>> ELSE r.response,
     !.docs = r.docs, !.nRetrieve = r.nRetrieve, !.nLLM = r.nLLM,
     !.add_exchange = saved]

(***************************************************************************)
(* api.py: POST /api/chat                                                  *)
(***************************************************************************)
get_user_id_from_email(email) ==
  LET email_normalized == Normalize(email)
  IN  IF USE_SUPABASE /\ email_normalized \in DOMAIN sbUsers
        THEN sbUsers[email_normalized].id
        ELSE email_normalized

\* the comparison route is taken before anything else is looked at
ChatComparison(message, docs, result) ==
  LET c == comparison_of[message]
      r == compare_traditions(c.traditions, docs, result)
  IN  /\ c.is_comparison /\ c.traditions # <<>>
      /\ last' = ChatRequest("api_chat", "compare", message, r, FALSE)
      /\ UNCHANGED <<configVars, chatVars, ag, authVars, communityVars>>

ChatRegular(message, session_id, authorization, use_multi_agent, docs, results) ==
  LET c == comparison_of[message]
      a == IF authorization # None THEN get_email_from_auth(authorization)
           ELSE [status |-> 401, email |-> None, sessions |-> sessions]
      authenticated == a.status = 200
      user_id == IF authenticated THEN get_user_id_from_email(a.email)
                 ELSE get_user_id(session_id)
      loaded == load_user_memory(user_id)
      link == authenticated /\ loaded.email = None
      linked == IF link THEN [loaded EXCEPT !.email = a.email] ELSE loaded
      store1 == IF link THEN save_user_memory(memStore, user_id, linked)
                ELSE memStore
      user_memory == [linked EXCEPT !.visit_count = @ + 1]
      multi == use_multi_agent /\ MULTI_AGENT_AVAILABLE
      r == IF multi
             THEN ask_question_multi_agent(message, docs, user_memory, results)
             ELSE ask_question(message, docs, results[1])
      saved == ~r.raised /\ ~r.is_crisis
  IN  /\ ~(c.is_comparison /\ c.traditions # <<>>)
      /\ saved => user_memory.visit_count <= MaxVisits
      /\ memStore' = IF saved
                       THEN save_user_memory(store1, user_id,
                                             add_exchange(user_memory, message))
                       ELSE store1
      /\ sessions' = a.sessions
      /\ last' = [ChatRequest("api_chat",
                              IF multi THEN "ask_question_multi_agent"
                              ELSE "ask_question",
                              message, r, saved)
                    EXCEPT !.authorization = authorization]
      /\ UNCHANGED <<configVars, stSession, inflight, ag, now, nextToken, accounts,
                     sbAuthUsers, sbTokens, sbUsers, sbStored, issued,
                     loggedOut, communityVars>>

(***************************************************************************)
(* app.py: the Streamlit session, prayer mode and standard mode            *)
(***************************************************************************)
\* init_session: a new session id, its memory, one more visit
StInitSession ==
  /\ ~stSession.initialized
  /\ stSession' = [initialized |-> TRUE,
                   memory |-> [load_user_memory(StUserId)
                                 EXCEPT !.visit_count = @ + 1]]
  /\ last' = [NoRequest EXCEPT !.entry = "st_init"]
  /\ UNCHANGED <<configVars, memStore, inflight, ag, authVars, communityVars>>

\* "Offer to the Light": add_exchange and save_user_memory follow ask_question
\* without a test of is_crisis; an exception of ask_question ends the script
\* run before anything is kept
StPrayer(message, docs, result) ==
  LET r == ask_question(message, docs, result)
      saved == ~r.raised
      memory == IF saved THEN add_exchange(stSession.memory, message)
                ELSE stSession.memory
  IN  /\ stSession.initialized
      /\ Strip(message) # <<>>
      /\ stSession' = [stSession EXCEPT !.memory = memory]
      /\ memStore' = IF saved THEN save_user_memory(memStore, StUserId, memory)
                     ELSE memStore
      /\ last' = ChatRequest("st_prayer", "ask_question", message, r, saved)
      /\ UNCHANGED <<configVars, inflight, ag, authVars, communityVars>>

\* "Seek Wisdom": add_exchange and save_user_memory only if not is_crisis;
\* message_count only times the humility reminder and is left out
StStandard(message, docs, result) ==
  LET r == ask_question(message, docs, result)
      saved == ~r.raised /\ ~r.is_crisis
      memory == IF saved THEN add_exchange(stSession.memory, message)
                ELSE stSession.memory
  IN  /\ stSession.initialized
      /\ Strip(message) # <<>>
      /\ stSession' = [stSession EXCEPT !.memory = memory]
      /\ memStore' = IF saved THEN save_user_memory(memStore, StUserId, memory)
                     ELSE memStore
      /\ last' = ChatRequest("st_standard", "ask_question", message, r, saved)
      /\ UNCHANGED <<configVars, inflight, ag, authVars, communityVars>>

\* the last line of the script saves the session's memory on every run
StScriptEnd ==
  /\ stSession.initialized
  /\ memStore' = save_user_memory(memStore, StUserId, stSession.memory)
  /\ last' = [NoRequest EXCEPT !.entry = "st_run"]
  /\ UNCHANGED <<configVars, stSession, inflight, ag, authVars, communityVars>>

(***************************************************************************)
(* Chat turns: the API and the Streamlit app over one memory store         *)
(***************************************************************************)
LLMConfigs == { <<"gemini", TRUE>>, <<"gemini", FALSE>>, <<"ollama", FALSE>> }

IdleRun == NewRun(<<>>, <<>>, <<>>)

\* what the requests of one chat turn give: all succeed, or one of them fails
ChatResultSeqs ==
  { [i \in 1..Len(AGENT_ORDER) |->
       [kind |-> "text", text |-> <<" ","a","m","e","n","\n">>]],
    [i \in 1..Len(AGENT_ORDER) |-> [kind |-> "raise", text |-> <<>>]] }

ChatAuthInputs == { None, TokenOf(0) }

NoSession == [initialized |-> FALSE, memory |-> DefaultMemory]

\* the processes that serve the API
Workers == {"w1", "w2"}

Idle == [busy |-> FALSE, user_id |-> None, message |-> <<>>,
         user_memory |-> DefaultMemory]

NoneInFlight == [w \in Workers |-> Idle]

\* one account (EmailA) exists and holds the session token TokenOf(0)
InitChat ==
  /\ USE_SUPABASE \in BOOLEAN
  /\ \E c \in LLMConfigs : LLM_PROVIDER = c[1] /\ gemini_model = c[2]
  /\ memStore = [u \in {} |-> DefaultMemory]
  /\ stSession = NoSession
  /\ inflight = NoneInFlight
  /\ last = NoRequest
  /\ ag = IdleRun
  /\ now = 0
  /\ nextToken = 1
  /\ loggedOut = {}
  /\ CLIENTS_SHARE_SESSION = FALSE
  /\ sbStored = None
  /\ issued = {}
  /\ profiles = [e \in {} |-> 0]
  /\ sbProfiles = [u \in {} |-> 0]
  /\ sbConnections = {}
  /\ sbRequests = {}
  /\ accounts = [f \in (IF USE_SUPABASE THEN {} ELSE {UserFile(EmailA)}) |->
                   [email |-> EmailA, password_hash |-> Password6,
                    preferences |-> DefaultPreferences]]
  /\ sessions = [t \in (IF USE_SUPABASE THEN {} ELSE {TokenOf(0)}) |->
                   [email |-> EmailA, created_at |-> 0,
                    expires_at |-> SESSION_DAYS]]
  /\ sbAuthUsers = [e \in (IF USE_SUPABASE THEN {EmailA} ELSE {}) |->
                      Password6]
  /\ sbTokens = [t \in (IF USE_SUPABASE THEN {TokenOf(0)} ELSE {}) |-> EmailA]
  /\ sbUsers = [e \in (IF USE_SUPABASE THEN {EmailA} ELSE {}) |->
                  [id |-> Uuid(e), preferences |-> DefaultPreferences]]

NextChat ==
  \/ \E m \in Messages, d \in DocLists, rs \in ChatResultSeqs :
        ChatComparison(m, d, rs[1])
  \/ \E m \in Messages, a \in ChatAuthInputs, multi \in BOOLEAN,
        d \in DocLists, rs \in ChatResultSeqs :
        ChatRegular(m, SessionId, a, multi, d, rs)
  \/ StInitSession
  \/ \E m \in Messages, d \in DocLists, rs \in ChatResultSeqs :
        StPrayer(m, d, rs[1])
  \/ \E m \in Messages, d \in DocLists, rs \in ChatResultSeqs :
        StStandard(m, d, rs[1])
  \/ StScriptEnd

SpecChat == InitChat /\ [][NextChat]_vars

(***************************************************************************)
(* Crisis handling                                                         *)
(***************************************************************************)
ChatEntries == {"api_chat", "st_prayer", "st_standard"}

\* themes and spiritual-journey data kept for a user
JourneyOf(store, u) ==
  LET m == IF u \in DOMAIN store THEN store[u] ELSE DefaultMemory
  IN  <<m.themes, m.primary_concerns, m.growth_areas, m.milestones>>

\* C1: when detect_crisis(question) is true, ask_question and
\* ask_question_multi_agent return the crisis resources with no documents and
\* is_crisis = True, and neither a retrieval nor an LLM call has been made.
C1_CrisisFirst ==
  (/\ last.route \in {"ask_question", "ask_question_multi_agent"}
   /\ ENABLE_CRISIS_DETECTION
   /\ crisis_of[last.message].is_crisis)
  => /\ last.is_crisis
     /\ last.status = 200
     /\ last.response = CRISIS_RESOURCES
     /\ last.docs = <<>>
     /\ last.nRetrieve = 0
     /\ last.nLLM = 0

C1_Witness ==
  /\ last.route = "ask_question_multi_agent"
  /\ last.message = MsgHopeless
  /\ last.is_crisis
  /\ last.nLLM = 0

\* C2: every message sent to POST /api/chat for which detect_crisis is true
\* is answered with is_crisis = True and the crisis resources, whatever else
\* the message contains and whatever use_multi_agent is.
C2_ChatAlwaysCrisis ==
  (/\ last.entry = "api_chat"
   /\ crisis_of[last.message].is_crisis)
  => /\ last.is_crisis
     /\ last.response = CRISIS_RESOURCES

\* C3: a chat turn answered with a crisis response does not call
\* add_exchange, and the stored themes and spiritual-journey data of every
\* user are the same after the turn as before it.
C3_CrisisNotSaved ==
  [][(last'.entry \in ChatEntries /\ last'.is_crisis)
       => /\ ~last'.add_exchange
          /\ \A u \in DOMAIN memStore \cup DOMAIN memStore' :
                JourneyOf(memStore', u) = JourneyOf(memStore, u)]_vars

(***************************************************************************)
(* agents.py: one run of multi_agent_guidance, request by request          *)
(***************************************************************************)
AgentQuestions == {MsgGrief}

UserContexts == {<<>>, SeekerContext}

Running(run) ==
  run.question # <<>> /\ ~run.raised /\ run.done < Len(AGENT_ORDER)

\* ask_question_multi_agent calls multi_agent_guidance
AgStart(question, scripture_context, user_context) ==
  /\ ~Running(ag)
  /\ ag' = NewRun(question, scripture_context, user_context)
  /\ last' = [NoRequest EXCEPT !.entry = "ag_start", !.message = question]
  /\ UNCHANGED <<configVars, chatVars, authVars, communityVars>>

\* the next run_*_agent function fills its template and calls
\* generate_agent_response
AgCall ==
  /\ Running(ag)
  /\ ag.in_flight = 0
  /\ ag' = CallStage(ag, ag.done + 1)
  /\ last' = [NoRequest EXCEPT !.entry = "ag_call", !.message = ag.question]
  /\ UNCHANGED <<configVars, chatVars, authVars, communityVars>>

\* generate_agent_response comes back; after the synthesis the function
\* returns (final_response, agent_outputs), an exception leaves it at once
AgReturn(result) ==
  LET run == ReturnStage(ag, ag.done + 1, result)
  IN  /\ Running(ag)
      /\ ag.in_flight = 1
      /\ ag' = run
      /\ last' = IF run.raised
                   THEN [NoRequest EXCEPT !.entry = "multi_agent_guidance",
                                          !.message = ag.question,
                                          !.status = 500]
                 ELSE IF run.done = Len(AGENT_ORDER)
                   THEN [NoRequest EXCEPT !.entry = "multi_agent_guidance",
                                          !.message = ag.question,
                                          !.status = 200,
                                          !.response = run.out.synthesis,
                                          !.nLLM = Len(run.calls)]
                 ELSE [NoRequest EXCEPT !.entry = "ag_return",
                                        !.message = ag.question]
      /\ UNCHANGED <<configVars, chatVars, authVars, communityVars>>

InitAgents == InitChat /\ ~USE_SUPABASE

NextAgents ==
  \/ \E q \in AgentQuestions, d \in DocLists, u \in UserContexts :
        AgStart(q, d, u)
  \/ AgCall
  \/ \E r \in LLMResults : AgReturn(r)

SpecAgents == InitAgents /\ [][NextAgents]_vars

\* C4: the stages of multi_agent_guidance run one after another in the order
\* compassion, scripture, scholar, guidance, synthesis, each with one call of
\* the LLM (five when the run returns, never two in flight); the scholar stage
\* is given the scripture output, the guidance stage the compassion,
\* scripture and scholar outputs joined in that order, and the synthesis
\* stage all four outputs.
C4_StagesInOrder ==
  /\ ag.in_flight \in {0, 1}
  /\ Len(ag.calls) <= Len(AGENT_ORDER)
  /\ \A k \in 1..Len(ag.calls) :
        /\ ag.calls[k].agent = AGENT_ORDER[k]
        /\ ag.calls[k].question = ag.question
  /\ ~ag.raised => Len(ag.calls) = ag.done + ag.in_flight
  /\ (last.entry = "multi_agent_guidance" /\ last.status = 200)
       => Len(ag.calls) = 5 /\ last.response = ag.out.synthesis
  /\ Len(ag.calls) >= 3 => ag.calls[3].inputs = <<ag.out.scripture>>
  /\ Len(ag.calls) >= 4 =>
       ag.calls[4].inputs =
         <<ag.out.compassion \o <<"\n", "\n">> \o ag.out.scripture
             \o <<"\n", "\n">> \o ag.out.scholar>>
  /\ Len(ag.calls) >= 5 =>
       ag.calls[5].inputs =
         <<ag.out.compassion, ag.out.scripture, ag.out.scholar, ag.out.guidance>>

C4_Witness ==
  /\ last.entry = "multi_agent_guidance"
  /\ last.status = 200
  /\ ag.done = 5
  /\ ag.out.compassion # ag.out.scripture
  /\ ag.out.scripture # ag.out.scholar

\* C5: for every LLM_PROVIDER, a failing LLM call of an agent stage is
\* answered with a fallback string: no exception leaves
\* generate_agent_response, and multi_agent_guidance runs all its stages and
\* returns its response with the four agent outputs.
C5_FailureRecovered ==
  /\ ~ag.raised
  /\ last.entry = "multi_agent_guidance"
       => /\ last.status = 200
          /\ ag.done = Len(AGENT_ORDER)
          /\ \A a \in {"compassion", "scripture", "scholar", "guidance"} :
                a \in DOMAIN ag.out

(***************************************************************************)
(* api.py: /api/auth/signup, /api/auth/login, /api/auth/logout,            *)
(* /api/auth/me                                                            *)
(***************************************************************************)
AddTo(f, key, value) ==
  [k \in DOMAIN f \cup {key} |-> IF k = key THEN value ELSE f[k]]

AuthRequest(entry, status, email, password, token, detail) ==
  [NoRequest EXCEPT !.entry = entry, !.status = status, !.email = email,
                    !.password = password, !.token = token, !.detail = detail]

Issue(token, email) == issued \cup {[token |-> token, email |-> email, at |-> now]}

\* tokens that have been generated so far, and one that never was
KnownTokens == { TokenOf(n) : n \in 0..(nextToken - 1) } \cup {UnknownToken}

\* read2 is the second reading of the clock in _create_session_file_based
Signup(email_in, password, read2) ==
  LET email == Normalize(email_in)
      token == TokenOf(nextToken)
  IN  /\ read2 <= MaxTime
      /\ email # <<>> /\ password # <<>>
      /\ IF ~USE_SUPABASE
           THEN LET c == _create_user_file_based(email, password, None)
                IN  /\ IF c.result.success
                      THEN /\ nextToken < MaxTokens
                           /\ accounts' = c.accounts
                           /\ sessions' = _create_session_file_based(email, token,
                                                                     now, read2)
                           /\ now' = read2
                           /\ nextToken' = nextToken + 1
                           /\ issued' = Issue(token, email)
                           /\ last' = AuthRequest("signup", 200, email_in, password,
                                                  token, c.result.message)
                      ELSE /\ read2 = now
                           /\ last' = AuthRequest("signup", 400, email_in, password,
                                                  None, c.result.message)
                           /\ UNCHANGED <<accounts, sessions, now, nextToken, issued>>
                    /\ UNCHANGED <<sbAuthUsers, sbTokens, sbUsers, sbStored>>
           ELSE LET c == create_user_supabase(email, password, None)
                    returned == create_session_supabase(email, token)
                IN  /\ read2 = now
                    /\ IF c.result.success
                         THEN /\ nextToken < MaxTokens
                              /\ sbAuthUsers' = c.sbAuthUsers
                              /\ sbUsers' = c.sbUsers
                              /\ sbTokens' = AddTo(sbTokens, token, email)
                              /\ sbStored' = token
                              /\ nextToken' = nextToken + 1
                              /\ issued' = Issue(returned, email)
                              /\ last' = AuthRequest("signup", 200, email_in,
                                                     password, returned,
                                                     c.result.message)
                         ELSE /\ last' = AuthRequest("signup", 400, email_in,
                                                     password, None,
                                                     c.result.message)
                              /\ UNCHANGED <<sbAuthUsers, sbTokens, sbUsers,
                                             sbStored, nextToken, issued>>
                    /\ UNCHANGED <<accounts, sessions, now>>
      /\ UNCHANGED <<configVars, chatVars, ag, loggedOut, communityVars>>

Login(email_in, password, read2) ==
  LET email == Normalize(email_in)
      token == TokenOf(nextToken)
  IN  /\ read2 <= MaxTime
      /\ email # <<>> /\ password # <<>>
      /\ IF ~USE_SUPABASE
           THEN LET a == _authenticate_user_file_based(email, password)
                IN  /\ IF a.success
                      THEN /\ nextToken < MaxTokens
                           /\ sessions' = _create_session_file_based(email, token,
                                                                     now, read2)
                           /\ now' = read2
                           /\ nextToken' = nextToken + 1
                           /\ issued' = Issue(token, email)
                           /\ last' = AuthRequest("login", 200, email_in, password,
                                                  token, a.message)
                      ELSE /\ read2 = now
                           /\ last' = AuthRequest("login", 401, email_in, password,
                                                  None, a.message)
                           /\ UNCHANGED <<sessions, now, nextToken, issued>>
                    /\ UNCHANGED <<sbTokens, sbStored>>
           ELSE LET a == authenticate_user_supabase(email, password)
                    returned == create_session_supabase(email, token)
                IN  /\ read2 = now
                    /\ IF a.success
                         THEN /\ nextToken < MaxTokens
                              /\ sbTokens' = AddTo(sbTokens, token, email)
                              /\ sbStored' = token
                              /\ nextToken' = nextToken + 1
                              /\ issued' = Issue(returned, email)
                              /\ last' = AuthRequest("login", 200, email_in,
                                                     password, returned, a.message)
                         ELSE /\ last' = AuthRequest("login", 401, email_in,
                                                     password, None, a.message)
                              /\ UNCHANGED <<sbTokens, sbStored, nextToken, issued>>
                    /\ UNCHANGED <<sessions, now>>
      /\ UNCHANGED <<configVars, chatVars, ag, accounts, sbAuthUsers, sbUsers,
                     loggedOut, communityVars>>

\* "if token: delete_session(token)"
Logout(token) ==
  /\ IF token = None
       THEN UNCHANGED <<sessions, sbTokens, sbStored, loggedOut>>
     ELSE IF ~USE_SUPABASE
       THEN /\ sessions' = _delete_session_file_based(token)
            /\ loggedOut' = loggedOut \cup {token}
            /\ UNCHANGED <<sbTokens, sbStored>>
     ELSE LET d == delete_session_supabase(token)
          IN  /\ sbTokens' = d.sbTokens
              /\ sbStored' = d.sbStored
              /\ loggedOut' = loggedOut \cup {token}
              /\ UNCHANGED sessions
  /\ last' = AuthRequest("logout", 200, None, None, token,
                         "Logged out successfully")
  /\ UNCHANGED <<configVars, chatVars, ag, now, nextToken, accounts,
                 sbAuthUsers, sbUsers, issued, communityVars>>

get_user_by_email(email) ==
  IF ~USE_SUPABASE THEN UserFile(email) \in DOMAIN accounts
  ELSE Normalize(email) \in DOMAIN sbUsers

\* get_current_user
Me(authorization) ==
  LET a == get_email_from_auth(authorization)
      status == IF a.status # 200 THEN 401
                ELSE IF ~get_user_by_email(a.email) THEN 404 ELSE 200
  IN  /\ sessions' = a.sessions
      /\ last' = [AuthRequest("me", status, a.email, None, None, "")
                    EXCEPT !.authorization = authorization]
      /\ UNCHANGED <<configVars, chatVars, ag, now, nextToken, accounts,
                     sbAuthUsers, sbTokens, sbUsers, sbStored, issued, loggedOut,
                     communityVars>>

\* the clock advances
Tick ==
  /\ now < MaxTime
  /\ now' = now + 1
  /\ last' = [NoRequest EXCEPT !.entry = "tick"]
  /\ UNCHANGED <<configVars, chatVars, ag, nextToken, accounts, sessions,
                 sbAuthUsers, sbTokens, sbUsers, sbStored, issued, loggedOut,
                 communityVars>>

\* one account (EmailA) exists; nobody is logged in
InitAuth ==
  /\ USE_SUPABASE \in BOOLEAN
  /\ CLIENTS_SHARE_SESSION \in BOOLEAN
  /\ CLIENTS_SHARE_SESSION => USE_SUPABASE
  /\ LLM_PROVIDER = "gemini"
  /\ gemini_model = TRUE
  /\ memStore = [u \in {} |-> DefaultMemory]
  /\ stSession = NoSession
  /\ inflight = NoneInFlight
  /\ ag = IdleRun
  /\ last = NoRequest
  /\ accounts = [f \in (IF USE_SUPABASE THEN {} ELSE {UserFile(EmailA)}) |->
                   [email |-> EmailA, password_hash |-> Password6,
                    preferences |-> DefaultPreferences]]
  /\ sessions = [t \in {} |-> 0]
  /\ sbAuthUsers = [e \in (IF USE_SUPABASE THEN {EmailA} ELSE {}) |-> Password6]
  /\ sbTokens = [t \in {} |-> 0]
  /\ sbUsers = [e \in (IF USE_SUPABASE THEN {EmailA} ELSE {}) |->
                  [id |-> Uuid(e), preferences |-> DefaultPreferences]]
  /\ sbStored = None
  /\ issued = {}
  /\ loggedOut = {}
  /\ profiles = [e \in {} |-> 0]
  /\ sbProfiles = [u \in {} |-> 0]
  /\ sbConnections = {}
  /\ sbRequests = {}
  /\ now = 0
  /\ nextToken = 0

NextAuth ==
  \/ \E e \in EmailInputs, p \in Passwords, read2 \in {now, now + 1} :
        Signup(e, p, read2)
  \/ \E e \in EmailInputs, p \in Passwords, read2 \in {now, now + 1} :
        Login(e, p, read2)
  \/ \E t \in KnownTokens \cup {None} : Logout(t)
  \/ \E t \in KnownTokens : Me(t)

SpecAuth == InitAuth /\ [][NextAuth]_vars

(***************************************************************************)
(* File-based sessions under a running clock                               *)
(***************************************************************************)
InitSessions == InitAuth /\ ~USE_SUPABASE

NextSessions ==
  \/ \E read2 \in {now, now + 1} :
        Login(EmailA, Password6, read2)
  \/ \E t \in KnownTokens : Logout(t)
  \/ \E t \in KnownTokens : Me(t)
  \/ Tick

SpecSessions == InitSessions /\ [][NextSessions]_vars

(***************************************************************************)
(* Accounts and sessions: properties                                       *)
(***************************************************************************)
\* C6: the token of a successful signup or login for email e validates to
\* (True, e) as long as it has not been logged out and has not expired, in
\* the file-based and in the Supabase configuration.
C6_LoginRoundTrip ==
  \A s \in issued :
     (s.token \notin loggedOut /\ now <= s.at + SESSION_DAYS)
       => validate_session(s.token).result = [is_valid |-> TRUE, email |-> s.email]

\* C7: after logout has been called with a token, validate_session rejects
\* that token, in the file-based and in the Supabase configuration.
C7_LogoutInvalidates ==
  \A t \in loggedOut : ~validate_session(t).result.is_valid

\* the claim of C8 as it is worded: a session validates only while the clock
\* is not later than created_at + 7 days, and a validation after that instant
\* removes it
C8_SevenDaysFromCreation ==
  \A t \in DOMAIN sessions :
     LET v == validate_session(t)
     IN  /\ v.result.is_valid => now <= sessions[t].created_at + SESSION_DAYS
         /\ now > sessions[t].created_at + SESSION_DAYS
              => ~v.result.is_valid /\ t \notin DOMAIN v.sessions

SessionRule(t) ==
  LET s == sessions[t]
      v == validate_session(t)
  IN  /\ s.expires_at >= s.created_at + SESSION_DAYS
      /\ v.result.is_valid <=> now <= s.expires_at
      /\ v.result.is_valid => v.result.email = s.email /\ v.sessions = sessions
      /\ ~v.result.is_valid => t \notin DOMAIN v.sessions

\* C8: a file-based session validates exactly while its file exists and the
\* clock is not later than the stored expires_at, which is 7 days after the
\* second reading of the clock and so never earlier than created_at + 7 days;
\* a validation after expires_at returns (False, None) and removes the file;
\* the clock does not go back and a removed token is never written again, so
\* every later validation is rejected too.
C8_ValidUntilExpiresAt ==
  /\ [](\A t \in DOMAIN sessions : SessionRule(t))
  /\ [][/\ now' >= now
        /\ \A t \in DOMAIN sessions' :
              \/ t \in DOMAIN sessions /\ sessions'[t] = sessions[t]
              \/ t \notin DOMAIN sessions /\ t = TokenOf(nextToken)
                   /\ nextToken' = nextToken + 1]_vars

C8_Witness ==
  /\ last.entry = "me"
  /\ last.status = 200
  /\ \E t \in DOMAIN sessions :
        /\ now > sessions[t].created_at + SESSION_DAYS
        /\ validate_session(t).result.is_valid

DuplicateMessage == "An account with this email already exists"

PasswordMessage == "Password must be at least 6 characters"

\* an account for a normalized email exists
AccountExists(email) ==
  IF USE_SUPABASE THEN email \in DOMAIN sbAuthUsers
  ELSE \E f \in DOMAIN accounts : Normalize(accounts[f].email) = email

OneAccountPerEmail ==
  /\ \A f, g \in DOMAIN accounts :
        Normalize(accounts[f].email) = Normalize(accounts[g].email) => f = g
  /\ \A e \in DOMAIN sbAuthUsers : Normalize(e) = e

AccountsUnchanged == UNCHANGED <<accounts, sbAuthUsers, sbUsers>>

_get_profile_path(user_email) == Lower(user_email)

_get_user_id_from_email(email) ==
  IF USE_SUPABASE /\ Normalize(email) \in DOMAIN sbUsers
    THEN sbUsers[Normalize(email)].id
    ELSE None

\* the profile files after the call
_create_or_update_profile_file_based(user_email, display_name, opt_in) ==
  LET path == _get_profile_path(user_email)
      found == path \in DOMAIN profiles
  IN  AddTo(profiles, path,
            [email |-> Lower(user_email), display_name |-> display_name,
             opt_in |-> opt_in,
             connections |-> IF found THEN profiles[path].connections ELSE <<>>,
             connection_requests |->
               IF found THEN profiles[path].connection_requests ELSE <<>>])

\* Supabase branch: raises ValueError when public.users has no row
create_or_update_profile_supabase(user_email, display_name, opt_in) ==
  LET user_id == _get_user_id_from_email(user_email)
  IN  IF user_id = None
        THEN [raised |-> TRUE, sbProfiles |-> sbProfiles]
        ELSE [raised |-> FALSE,
              sbProfiles |-> AddTo(sbProfiles, user_id,
                                   [display_name |-> display_name,
                                    opt_in |-> opt_in])]

\* get_profile(email) is not None, and its opt_in
HasProfile(email) ==
  IF ~USE_SUPABASE THEN _get_profile_path(email) \in DOMAIN profiles
  ELSE /\ _get_user_id_from_email(email) # None
       /\ _get_user_id_from_email(email) \in DOMAIN sbProfiles

OptedIn(email) ==
  IF ~USE_SUPABASE THEN profiles[_get_profile_path(email)].opt_in
  ELSE sbProfiles[_get_user_id_from_email(email)].opt_in

_send_connection_request_file_based(from_email, to_email) ==
  LET from_path == _get_profile_path(from_email)
      to_path   == _get_profile_path(to_email)
  IN  IF from_path \notin DOMAIN profiles
        THEN [result |-> Fail("Your profile not found. Please create a profile first."),
              profiles |-> profiles]
      ELSE IF to_path \notin DOMAIN profiles
        THEN [result |-> Fail("User not found."), profiles |-> profiles]
      ELSE IF ~profiles[to_path].opt_in
        THEN [result |-> Fail("User is not accepting connections."),
              profiles |-> profiles]
      ELSE IF InSeq(Lower(to_email), profiles[from_path].connections)
        THEN [result |-> Fail("You are already connected with this user."),
              profiles |-> profiles]
      ELSE IF InSeq(Lower(from_email), profiles[to_path].connection_requests)
        THEN [result |-> Fail("Connection request already sent."),
              profiles |-> profiles]
      ELSE [result |-> Ok("Connection request sent!"),
            profiles |->
              [profiles EXCEPT ![to_path].connection_requests =
                                  Append(@, Lower(from_email))]]

send_connection_request_supabase(from_email, to_email) ==
  LET from_user_id == _get_user_id_from_email(from_email)
      to_user_id   == _get_user_id_from_email(to_email)
  IN  IF from_user_id = None
        THEN [result |-> Fail("Your profile not found. Please create a profile first."),
              sbRequests |-> sbRequests]
      ELSE IF to_user_id = None
        THEN [result |-> Fail("User not found."), sbRequests |-> sbRequests]
      ELSE IF to_user_id \notin DOMAIN sbProfiles \/ ~sbProfiles[to_user_id].opt_in
        THEN [result |-> Fail("User is not accepting connections."),
              sbRequests |-> sbRequests]
      ELSE IF <<from_user_id, to_user_id>> \in sbConnections
        THEN [result |-> Fail("You are already connected with this user."),
              sbRequests |-> sbRequests]
      ELSE IF [from_user_id |-> from_user_id, to_user_id |-> to_user_id,
               status |-> "pending"] \in sbRequests
        THEN [result |-> Fail("Connection request already sent."),
              sbRequests |-> sbRequests]
      ELSE [result |-> Ok("Connection request sent!"),
            sbRequests |-> sbRequests \cup
              {[from_user_id |-> from_user_id, to_user_id |-> to_user_id,
                status |-> "pending"]}]

RECURSIVE Without(_, _)
Without(s, x) ==
  IF s = <<>> THEN <<>>
  ELSE IF Head(s) = x THEN Without(Tail(s), x)
  ELSE <<Head(s)>> \o Without(Tail(s), x)

_respond_to_request_file_based(user_email, from_email, accept) ==
  LET user_path == _get_profile_path(user_email)
      from_path == _get_profile_path(from_email)
  IN  IF user_path \notin DOMAIN profiles \/ from_path \notin DOMAIN profiles
        THEN [result |-> Fail("Profile not found."), profiles |-> profiles]
      ELSE IF ~InSeq(Lower(from_email), profiles[user_path].connection_requests)
        THEN [result |-> Fail("Connection request not found."),
              profiles |-> profiles]
      ELSE LET user1 == [profiles[user_path] EXCEPT
                           !.connection_requests = Without(@, Lower(from_email))]
               user2 == IF accept /\ ~InSeq(Lower(from_email), user1.connections)
                          THEN [user1 EXCEPT
                                  !.connections = Append(@, Lower(from_email))]
                          ELSE user1
               from1 == profiles[from_path]
               from2 == IF accept /\ ~InSeq(Lower(user_email), from1.connections)
                          THEN [from1 EXCEPT
                                  !.connections = Append(@, Lower(user_email))]
                          ELSE from1
               \* the file of from_email is written first, then the user's
               written == IF accept THEN AddTo(profiles, from_path, from2)
                          ELSE profiles
           IN  [result |-> Ok(IF accept THEN "Connection accepted!"
                              ELSE "Connection declined."),
                profiles |-> AddTo(written, user_path, user2)]

respond_to_request_supabase(user_email, from_email, accept) ==
  LET user_id      == _get_user_id_from_email(user_email)
      from_user_id == _get_user_id_from_email(from_email)
      pending == [from_user_id |-> from_user_id, to_user_id |-> user_id,
                  status |-> "pending"]
      new_status == IF accept THEN "accepted" ELSE "declined"
  IN  IF user_id = None \/ from_user_id = None
        THEN [result |-> Fail("Profile not found."),
              sbRequests |-> sbRequests, sbConnections |-> sbConnections]
      ELSE IF pending \notin sbRequests
        THEN [result |-> Fail("Connection request not found."),
              sbRequests |-> sbRequests, sbConnections |-> sbConnections]
      ELSE [result |-> Ok(IF accept THEN "Connection accepted!"
                          ELSE "Connection declined."),
            \* the update has no filter on status: every request of the pair
            sbRequests |->
              { IF r.from_user_id = from_user_id /\ r.to_user_id = user_id
                  THEN [r EXCEPT !.status = new_status] ELSE r : r \in sbRequests },
            sbConnections |->
              IF accept
                THEN sbConnections \cup {<<user_id, from_user_id>>,
                                         <<from_user_id, user_id>>}
                ELSE sbConnections]

(***************************************************************************)
(* api.py: the token-protected endpoints                                   *)
(***************************************************************************)
EndpointRequest(entry, status, authorization, email) ==
  [NoRequest EXCEPT !.entry = entry, !.status = status,
                    !.authorization = authorization, !.email = email]

\* PUT /api/auth/preferences
UpdatePreferences(authorization, preferences) ==
  LET a == get_email_from_auth(authorization)
      found == IF ~USE_SUPABASE THEN UserFile(a.email) \in DOMAIN accounts
               ELSE Normalize(a.email) \in DOMAIN sbUsers
      success == a.status = 200 /\ found
  IN  /\ sessions' = a.sessions
      /\ accounts' = IF success /\ ~USE_SUPABASE
                       THEN [accounts EXCEPT
                               ![UserFile(a.email)].preferences = preferences]
                       ELSE accounts
      /\ sbUsers' = IF success /\ USE_SUPABASE
                      THEN [sbUsers EXCEPT
                              ![Normalize(a.email)].preferences = preferences]
                      ELSE sbUsers
      /\ last' = EndpointRequest("preferences",
                                 IF a.status # 200 THEN 401
                                 ELSE IF found THEN 200 ELSE 500,
                                 authorization, a.email)
      /\ UNCHANGED <<configVars, chatVars, ag, now, nextToken, sbAuthUsers,
                     sbTokens, sbStored, issued, loggedOut,
                     communityVars>>

\* POST /api/migrate-memory; migrate_session_memory_to_account only
\* returns True
MigrateMemory(authorization, session_id) ==
  LET a == get_email_from_auth(authorization)
  IN  /\ sessions' = a.sessions
      /\ last' = EndpointRequest("migrate_memory",
                                 IF authorization = None \/ a.status # 200 THEN 401
                                 ELSE IF session_id = None THEN 400 ELSE 200,
                                 authorization, a.email)
      /\ UNCHANGED <<configVars, chatVars, ag, now, nextToken, sbAuthUsers,
                     sbTokens, sbStored, issued, loggedOut,
                     accounts, sbUsers, communityVars>>

\* POST /api/community/profile
CreateCommunityProfile(authorization, display_name, opt_in) ==
  LET a == get_email_from_auth(authorization)
      c == create_or_update_profile_supabase(a.email, display_name, opt_in)
  IN  /\ sessions' = a.sessions
      /\ profiles' = IF a.status = 200 /\ ~USE_SUPABASE
                       THEN _create_or_update_profile_file_based(
                              a.email, display_name, opt_in)
                       ELSE profiles
      /\ sbProfiles' = IF a.status = 200 /\ USE_SUPABASE THEN c.sbProfiles
                       ELSE sbProfiles
      /\ last' = EndpointRequest("community_profile_post",
                                 IF a.status # 200 THEN 401
                                 ELSE IF USE_SUPABASE /\ c.raised THEN 500
                                 ELSE 200,
                                 authorization, a.email)
      /\ UNCHANGED <<configVars, chatVars, ag, now, nextToken, sbAuthUsers,
                     sbTokens, sbStored, issued, loggedOut,
                     accounts, sbUsers, sbConnections, sbRequests>>

\* GET /api/community/profile
GetCommunityProfile(authorization) ==
  LET a == get_email_from_auth(authorization)
  IN  /\ sessions' = a.sessions
      /\ last' = EndpointRequest("community_profile_get",
                                 IF a.status # 200 THEN 401 ELSE 200,
                                 authorization, a.email)
      /\ UNCHANGED <<configVars, chatVars, ag, now, nextToken, sbAuthUsers,
                     sbTokens, sbStored, issued, loggedOut,
                     accounts, sbUsers, communityVars>>

\* GET /api/community/matches; find_matches only reads
GetMatches(authorization) ==
  LET a == get_email_from_auth(authorization)
  IN  /\ sessions' = a.sessions
      /\ last' = EndpointRequest("community_matches",
                                 IF a.status # 200 THEN 401
                                 ELSE IF ~HasProfile(a.email) THEN 400
                                 ELSE IF ~OptedIn(a.email) THEN 400 ELSE 200,
                                 authorization, a.email)
      /\ UNCHANGED <<configVars, chatVars, ag, now, nextToken, sbAuthUsers,
                     sbTokens, sbStored, issued, loggedOut,
                     accounts, sbUsers, communityVars>>

\* POST /api/community/connect
RequestConnection(authorization, to_email) ==
  LET a == get_email_from_auth(authorization)
      f == _send_connection_request_file_based(a.email, to_email)
      s == send_connection_request_supabase(a.email, to_email)
      result == IF USE_SUPABASE THEN s.result ELSE f.result
  IN  /\ sessions' = a.sessions
      /\ profiles' = IF a.status = 200 /\ ~USE_SUPABASE THEN f.profiles
                     ELSE profiles
      /\ sbRequests' = IF a.status = 200 /\ USE_SUPABASE THEN s.sbRequests
                       ELSE sbRequests
      /\ last' = [EndpointRequest("community_connect",
                                  IF a.status # 200 THEN 401
                                  ELSE IF result.success THEN 200 ELSE 400,
                                  authorization, a.email)
                    EXCEPT !.detail = IF a.status = 200 THEN result.message
                                      ELSE ""]
      /\ UNCHANGED <<configVars, chatVars, ag, now, nextToken, sbAuthUsers,
                     sbTokens, sbStored, issued, loggedOut,
                     accounts, sbUsers, sbProfiles, sbConnections>>

\* POST /api/community/respond
RespondConnection(authorization, from_email, accept) ==
  LET a == get_email_from_auth(authorization)
      f == _respond_to_request_file_based(a.email, from_email, accept)
      s == respond_to_request_supabase(a.email, from_email, accept)
      result == IF USE_SUPABASE THEN s.result ELSE f.result
  IN  /\ sessions' = a.sessions
      /\ profiles' = IF a.status = 200 /\ ~USE_SUPABASE THEN f.profiles
                     ELSE profiles
      /\ sbRequests' = IF a.status = 200 /\ USE_SUPABASE THEN s.sbRequests
                       ELSE sbRequests
      /\ sbConnections' = IF a.status = 200 /\ USE_SUPABASE THEN s.sbConnections
                          ELSE sbConnections
      /\ last' = [EndpointRequest("community_respond",
                                  IF a.status # 200 THEN 401
                                  ELSE IF result.success THEN 200 ELSE 400,
                                  authorization, a.email)
                    EXCEPT !.detail = IF a.status = 200 THEN result.message
                                      ELSE ""]
      /\ UNCHANGED <<configVars, chatVars, ag, now, nextToken, sbAuthUsers,
                     sbTokens, sbStored, issued, loggedOut,
                     accounts, sbUsers, sbProfiles>>

\* GET /api/community/connections
ListConnections(authorization) ==
  LET a == get_email_from_auth(authorization)
  IN  /\ sessions' = a.sessions
      /\ last' = EndpointRequest("community_connections",
                                 IF a.status # 200 THEN 401 ELSE 200,
                                 authorization, a.email)
      /\ UNCHANGED <<configVars, chatVars, ag, now, nextToken, sbAuthUsers,
                     sbTokens, sbStored, issued, loggedOut,
                     accounts, sbUsers, communityVars>>

\* GET /api/community/requests
ListRequests(authorization) ==
  LET a == get_email_from_auth(authorization)
  IN  /\ sessions' = a.sessions
      /\ last' = EndpointRequest("community_requests",
                                 IF a.status # 200 THEN 401 ELSE 200,
                                 authorization, a.email)
      /\ UNCHANGED <<configVars, chatVars, ag, now, nextToken, sbAuthUsers,
                     sbTokens, sbStored, issued, loggedOut,
                     accounts, sbUsers, communityVars>>

DisplayNames == {"Ann"}

PreferenceInputs == {"light"}

ExpiredToken == TokenOf(1)

EndpointAuths ==
  { None, TokenOf(0), Bearer \o TokenOf(0), ExpiredToken, UnknownToken }

InitProfile(email, requests) ==
  [email |-> email, display_name |-> "Ann", opt_in |-> TRUE,
   connections |-> <<>>, connection_requests |-> requests]

\* two accounts with profiles, a request of EmailB waiting for EmailA, a
\* session of EmailA and one that has expired
InitEndpoints ==
  /\ USE_SUPABASE \in BOOLEAN
  /\ CLIENTS_SHARE_SESSION = FALSE
  /\ LLM_PROVIDER = "gemini"
  /\ gemini_model = TRUE
  /\ memStore = [u \in {} |-> DefaultMemory]
  /\ stSession = NoSession
  /\ inflight = NoneInFlight
  /\ ag = IdleRun
  /\ last = NoRequest
  /\ now = SESSION_DAYS + 1
  /\ nextToken = 2
  /\ accounts = [f \in (IF USE_SUPABASE THEN {}
                         ELSE {UserFile(EmailA), UserFile(EmailB)}) |->
                   [email |-> f, password_hash |-> Password6,
                    preferences |-> DefaultPreferences]]
  /\ sessions =
       IF USE_SUPABASE THEN [t \in {} |-> 0]
       ELSE [t \in {TokenOf(0), ExpiredToken} |->
               [email |-> EmailA,
                created_at |-> IF t = ExpiredToken THEN 0 ELSE now,
                expires_at |-> (IF t = ExpiredToken THEN 0 ELSE now)
                                 + SESSION_DAYS]]
  /\ sbAuthUsers = [e \in (IF USE_SUPABASE THEN {EmailA, EmailB} ELSE {}) |->
                      Password6]
  /\ sbTokens = [t \in (IF USE_SUPABASE THEN {TokenOf(0)} ELSE {}) |-> EmailA]
  /\ sbUsers = [e \in (IF USE_SUPABASE THEN {EmailA, EmailB} ELSE {}) |->
                  [id |-> Uuid(e), preferences |-> DefaultPreferences]]
  /\ sbStored = None
  /\ issued = {}
  /\ loggedOut = {}
  /\ profiles = [e \in (IF USE_SUPABASE THEN {} ELSE {EmailA, EmailB}) |->
                   InitProfile(e, IF e = EmailA THEN <<EmailB>> ELSE <<>>)]
  /\ sbProfiles = [u \in (IF USE_SUPABASE THEN {Uuid(EmailA), Uuid(EmailB)}
                           ELSE {}) |->
                     [display_name |-> "Ann", opt_in |-> TRUE]]
  /\ sbConnections = {}
  /\ sbRequests = IF USE_SUPABASE
                    THEN {[from_user_id |-> Uuid(EmailB),
                           to_user_id |-> Uuid(EmailA), status |-> "pending"]}
                    ELSE {}

NextEndpoints ==
  \/ \E a \in EndpointAuths : Me(a)
  \/ \E a \in EndpointAuths, p \in PreferenceInputs : UpdatePreferences(a, p)
  \/ \E a \in EndpointAuths, s \in {None, SessionId} : MigrateMemory(a, s)
  \/ \E a \in EndpointAuths, n \in DisplayNames, o \in BOOLEAN :
        CreateCommunityProfile(a, n, o)
  \/ \E a \in EndpointAuths : GetCommunityProfile(a)
  \/ \E a \in EndpointAuths : GetMatches(a)
  \/ \E a \in EndpointAuths : RequestConnection(a, EmailB)
  \/ \E a \in EndpointAuths, accept \in BOOLEAN :
        RespondConnection(a, EmailB, accept)
  \/ \E a \in EndpointAuths : ListConnections(a)
  \/ \E a \in EndpointAuths : ListRequests(a)

SpecEndpoints == InitEndpoints /\ [][NextEndpoints]_vars

ProtectedEntries ==
  {"me", "preferences", "migrate_memory", "community_profile_post",
   "community_profile_get", "community_matches", "community_connect",
   "community_respond", "community_connections", "community_requests"}

\* the token that an authorization value carries
BearerToken(authorization) ==
  IF StartsWith(authorization, Bearer) THEN Remove(authorization, Bearer)
  ELSE authorization

\* C9: a request to a token-protected endpoint whose authorization value is
\* missing, or whose token validate_session rejects, is answered 401 and
\* creates or changes no account, preference, profile, connection request or
\* connection.
C9_RejectedChangesNothing ==
  [][(/\ last'.entry \in ProtectedEntries
      /\ \/ last'.authorization = None
         \/ ~validate_session(BearerToken(last'.authorization)).result.is_valid)
       => /\ last'.status = 401
          /\ UNCHANGED <<accounts, sbAuthUsers, sbUsers, communityVars>>]_vars

C9_Witness ==
  /\ last.entry = "community_respond"
  /\ last.status = 401
  /\ last.authorization = ExpiredToken
  /\ \/ \E p \in DOMAIN profiles : profiles[p].connection_requests # <<>>
     \/ sbRequests # {}


(***************************************************************************)
(* community.py: create_or_update_profile, send_connection_request and     *)
(* respond_to_request called for the two account holders                   *)
(***************************************************************************)
\* the call handled by a step: email is the caller, message the other
\* address, detail the message of the (success, message) pair returned
CommunityCall(entry, email, other, result) ==
  [NoRequest EXCEPT !.entry = entry, !.email = email, !.message = other,
                    !.status = IF result.success THEN 200 ELSE 400,
                    !.detail = result.message]

\* create_or_update_profile(user_email, display_name, opt_in=...)
CreateProfile(user_email, display_name, opt_in) ==
  LET c == create_or_update_profile_supabase(user_email, display_name, opt_in)
  IN  /\ profiles' = IF USE_SUPABASE THEN profiles
                     ELSE _create_or_update_profile_file_based(
                            user_email, display_name, opt_in)
      /\ sbProfiles' = IF USE_SUPABASE THEN c.sbProfiles ELSE sbProfiles
      /\ last' = CommunityCall("create_or_update_profile", user_email, None,
                               IF USE_SUPABASE /\ c.raised
                                 THEN Fail("User not found")
                                 ELSE Ok("profile"))
      /\ UNCHANGED <<configVars, chatVars, ag, authVars, sbConnections,
                     sbRequests>>

\* send_connection_request(from_email, to_email)
SendConnectionRequest(from_email, to_email) ==
  LET f == _send_connection_request_file_based(from_email, to_email)
      s == send_connection_request_supabase(from_email, to_email)
  IN  /\ profiles' = IF USE_SUPABASE THEN profiles ELSE f.profiles
      /\ sbRequests' = IF USE_SUPABASE THEN s.sbRequests ELSE sbRequests
      /\ last' = CommunityCall("send_connection_request", from_email, to_email,
                               IF USE_SUPABASE THEN s.result ELSE f.result)
      /\ UNCHANGED <<configVars, chatVars, ag, authVars, sbProfiles,
                     sbConnections>>

\* respond_to_request(user_email, from_email, accept)
RespondToRequest(user_email, from_email, accept) ==
  LET f == _respond_to_request_file_based(user_email, from_email, accept)
      s == respond_to_request_supabase(user_email, from_email, accept)
  IN  /\ profiles' = IF USE_SUPABASE THEN profiles ELSE f.profiles
      /\ sbRequests' = IF USE_SUPABASE THEN s.sbRequests ELSE sbRequests
      /\ sbConnections' = IF USE_SUPABASE THEN s.sbConnections
                          ELSE sbConnections
      /\ last' = CommunityCall("respond_to_request", user_email, from_email,
                               IF USE_SUPABASE THEN s.result ELSE f.result)
      /\ UNCHANGED <<configVars, chatVars, ag, authVars, sbProfiles>>

\* addresses of the caller (as the session gives them) and of the other
\* user (as the client sends them)
CallerEmails == {EmailA, EmailB}

OtherEmails == {EmailA, EmailB, <<"B","@","x">>}

\* two accounts, no community profile yet
InitCommunity ==
  /\ USE_SUPABASE \in BOOLEAN
  /\ CLIENTS_SHARE_SESSION = FALSE
  /\ LLM_PROVIDER = "gemini"
  /\ gemini_model = TRUE
  /\ memStore = [u \in {} |-> DefaultMemory]
  /\ stSession = NoSession
  /\ inflight = NoneInFlight
  /\ ag = IdleRun
  /\ last = NoRequest
  /\ now = 0
  /\ nextToken = 0
  /\ accounts = [f \in (IF USE_SUPABASE THEN {}
                         ELSE {UserFile(EmailA), UserFile(EmailB)}) |->
                   [email |-> f, password_hash |-> Password6,
                    preferences |-> DefaultPreferences]]
  /\ sessions = [t \in {} |-> 0]
  /\ sbAuthUsers = [e \in (IF USE_SUPABASE THEN {EmailA, EmailB} ELSE {}) |->
                      Password6]
  /\ sbTokens = [t \in {} |-> EmailA]
  /\ sbUsers = [e \in (IF USE_SUPABASE THEN {EmailA, EmailB} ELSE {}) |->
                  [id |-> Uuid(e), preferences |-> DefaultPreferences]]
  /\ sbStored = None
  /\ issued = {}
  /\ loggedOut = {}
  /\ profiles = [e \in {} |-> InitProfile(e, <<>>)]
  /\ sbProfiles = [u \in {} |-> [display_name |-> "Ann", opt_in |-> TRUE]]
  /\ sbConnections = {}
  /\ sbRequests = {}

NextCommunity ==
  \/ \E e \in CallerEmails, n \in DisplayNames, o \in BOOLEAN :
        CreateProfile(e, n, o)
  \/ \E e \in CallerEmails, t \in OtherEmails : SendConnectionRequest(e, t)
  \/ \E e \in CallerEmails, t \in OtherEmails, a \in BOOLEAN :
        RespondToRequest(e, t, a)

SpecCommunity == InitCommunity /\ [][NextCommunity]_vars

\* from_email and to_email are connected
Connected(from_email, to_email) ==
  IF USE_SUPABASE
    THEN <<_get_user_id_from_email(from_email),
           _get_user_id_from_email(to_email)>> \in sbConnections
    ELSE InSeq(Lower(to_email), profiles[_get_profile_path(from_email)].connections)

\* the number of requests of from_email that wait for to_email
RECURSIVE Count(_, _)
Count(s, x) ==
  IF s = <<>> THEN 0
  ELSE (IF Head(s) = x THEN 1 ELSE 0) + Count(Tail(s), x)

Pending(from_email, to_email) ==
  IF USE_SUPABASE
    THEN Cardinality({ r \in sbRequests :
                         /\ r.from_user_id = _get_user_id_from_email(from_email)
                         /\ r.to_user_id = _get_user_id_from_email(to_email)
                         /\ r.status = "pending" })
    ELSE IF _get_profile_path(to_email) \in DOMAIN profiles
      THEN Count(profiles[_get_profile_path(to_email)].connection_requests,
                 Lower(from_email))
      ELSE 0

\* C11: send_connection_request(from, to) succeeds only if the sender has a
\* community profile, the recipient has a community profile with opt_in
\* true, the two are not connected and no request of the sender waits for
\* the recipient; a call that fails changes nothing; and at no time do two
\* requests of one sender wait for one recipient.
C11_RequestOnlyBetweenProfiles ==
  /\ [](\A e \in CallerEmails, t \in CallerEmails : Pending(e, t) <= 1)
  /\ [][last'.entry = "send_connection_request" =>
          IF last'.status = 200
            THEN /\ HasProfile(last'.email)
                 /\ HasProfile(last'.message)
                 /\ OptedIn(last'.message)
                 /\ ~Connected(last'.email, last'.message)
                 /\ Pending(last'.email, last'.message) = 0
            ELSE UNCHANGED communityVars]_vars

(***************************************************************************)
(* community.py: calculate_compatibility_score                             *)
(* A score is kept as an exact fraction [n, d] with d > 0.                 *)
(***************************************************************************)
\* the weights dictionary, in the order of its keys
weights ==
  << [category |-> "seeking_support_for", weight |-> 30],
     [category |-> "preferred_traditions", weight |-> 25],
     [category |-> "spiritual_journey", weight |-> 20],
     [category |-> "primary_interests", weight |-> 15],
     [category |-> "connection_style", weight |-> 10] >>

WeightedCategories == { weights[i].category : i \in DOMAIN weights }

\* set(list)
SetOf(list) == { list[i] : i \in DOMAIN list }

Max(a, b) == IF a >= b THEN a ELSE b

Frac(n, d) == [n |-> n, d |-> d]

FracAdd(a, b) == Frac(a.n * b.d + b.n * a.d, a.d * b.d)

FracEq(a, b) == a.n * b.d = b.n * a.d

FracLeq(a, b) == a.n * b.d <= b.n * a.d

\* min(100, score)
Min100(score) == IF FracLeq(Frac(100, 1), score) THEN Frac(100, 1) ELSE score

\* weight * overlap_score, where overlap_score is
\* len(overlap) / max(len(set1), len(set2))
WeightedOverlap_by_first(weight, set1, set2) ==
  Frac(weight * Cardinality(set1 \cap set2), Cardinality(set1))

WeightedOverlap(weight, set1, set2) ==
  Frac(weight * Cardinality(set1 \cap set2),
       Max(Cardinality(set1), Cardinality(set2)))

\* the loop over weights.items(), from the i-th entry on
RECURSIVE ScoreLoop(_, _, _, _, _)
ScoreLoop(traits1, traits2, i, score, matching_traits) ==
  IF i > Len(weights) THEN [score |-> score, matching_traits |-> matching_traits]
  ELSE LET category == weights[i].category
           set1 == SetOf(traits1[category])
           set2 == SetOf(traits2[category])
           overlap == set1 \cap set2
       IN  IF set1 # {} /\ set2 # {} /\ overlap # {}
             THEN ScoreLoop(traits1, traits2, i + 1,
                    FracAdd(score, WeightedOverlap(weights[i].weight, set1, set2)),
                    matching_traits \cup { <<category, t>> : t \in overlap })
             ELSE ScoreLoop(traits1, traits2, i + 1, score, matching_traits)

\* matching_traits is kept as a set: the order in which Python walks a set
\* is not modelled
calculate_compatibility_score(profile1, profile2) ==
  IF ~profile1.opt_in \/ ~profile2.opt_in
    THEN [score |-> Frac(0, 1), matching_traits |-> {}]
    ELSE LET l == ScoreLoop(profile1.traits, profile2.traits, 1, Frac(0, 1), {})
             trad == SetOf(profile1.preferred_traditions)
                       \cap SetOf(profile2.preferred_traditions)
             score == IF trad # {} THEN FracAdd(l.score, Frac(10, 1))
                      ELSE l.score
         IN  [score |-> Min100(score),
              matching_traits |->
                IF trad # {} THEN l.matching_traits \cup {<<"traditions", trad>>}
                ELSE l.matching_traits]

\* the two profiles that are scored: lists of traits as the profile files
\* hold them (a list may name a trait twice)
TraitLists1 == { <<"grief">>, <<"grief","anxiety">> }

TraitLists2 == { <<>>, <<"grief","grief">>, <<"anxiety","purpose","grief">> }

ScoredProfile(email, opt_in, traits, preferred_traditions) ==
  [email |-> email, display_name |-> "Ann", opt_in |-> opt_in,
   traits |-> traits, preferred_traditions |-> preferred_traditions,
   connections |-> <<>>, connection_requests |-> <<>>]

InitMatching ==
  /\ USE_SUPABASE = FALSE
  /\ CLIENTS_SHARE_SESSION = FALSE
  /\ LLM_PROVIDER = "gemini"
  /\ gemini_model = TRUE
  /\ memStore = [u \in {} |-> DefaultMemory]
  /\ stSession = NoSession
  /\ inflight = NoneInFlight
  /\ ag = IdleRun
  /\ last = NoRequest
  /\ now = 0
  /\ nextToken = 0
  /\ accounts = [f \in {UserFile(EmailA), UserFile(EmailB)} |->
                   [email |-> f, password_hash |-> Password6,
                    preferences |-> DefaultPreferences]]
  /\ sessions = [t \in {} |-> 0]
  /\ sbAuthUsers = [e \in {} |-> Password6]
  /\ sbTokens = [t \in {} |-> EmailA]
  /\ sbUsers = [e \in {} |-> [id |-> Uuid(e), preferences |-> DefaultPreferences]]
  /\ sbStored = None
  /\ issued = {}
  /\ loggedOut = {}
  /\ \E o1, o2 \in BOOLEAN,
        t1 \in [WeightedCategories -> TraitLists1],
        t2 \in [WeightedCategories -> TraitLists2],
        p2 \in { <<>>, <<"christianity">> } :
        profiles =
          [e \in {EmailA, EmailB} |->
             IF e = EmailA
               THEN ScoredProfile(e, o1, t1, <<"christianity","islam">>)
               ELSE ScoredProfile(e, o2, t2, p2)]
  /\ sbProfiles = [u \in {} |-> [display_name |-> "Ann", opt_in |-> TRUE]]
  /\ sbConnections = {}
  /\ sbRequests = {}

\* calculate_compatibility_score(profile of email1, profile of email2)
CalculateScore(email1, email2) ==
  /\ last' = [NoRequest EXCEPT
                !.entry = "calculate_compatibility_score",
                !.email = email1, !.message = email2,
                !.response = calculate_compatibility_score(
                               profiles[_get_profile_path(email1)],
                               profiles[_get_profile_path(email2)])]
  /\ UNCHANGED <<configVars, chatVars, ag, authVars, communityVars>>

NextMatching ==
  \E e1, e2 \in {EmailA, EmailB} : CalculateScore(e1, e2)

SpecMatching == InitMatching /\ [][NextMatching]_vars

\* the sum of the claim over the categories i..5, each term
\* weight * |A \cap B| / max(|A|, |B|) (nothing for two empty sets)
RECURSIVE WeightedSum(_, _, _)
WeightedSum(profile1, profile2, i) ==
  IF i > Len(weights) THEN Frac(0, 1)
  ELSE LET A == SetOf(profile1.traits[weights[i].category])
           B == SetOf(profile2.traits[weights[i].category])
       IN  FracAdd(WeightedSum(profile1, profile2, i + 1),
                   Frac(weights[i].weight * Cardinality(A \cap B),
                        Max(1, Max(Cardinality(A), Cardinality(B)))))

\* C12: calculate_compatibility_score returns (0, []) when either profile
\* has opt_in false; otherwise its score is the weighted sum over the five
\* categories plus 10 when the preferred_traditions lists intersect, capped
\* at 100; the score lies in 0..100 and is the same for (p1, p2) and
\* (p2, p1).
C12_WeightedIntersectionScore ==
  last.entry = "calculate_compatibility_score" =>
    LET p1 == profiles[_get_profile_path(last.email)]
        p2 == profiles[_get_profile_path(last.message)]
        r  == last.response
        bonus == IF SetOf(p1.preferred_traditions)
                      \cap SetOf(p2.preferred_traditions) # {}
                   THEN Frac(10, 1) ELSE Frac(0, 1)
    IN  /\ (~p1.opt_in \/ ~p2.opt_in) =>
              r = [score |-> Frac(0, 1), matching_traits |-> {}]
        /\ (p1.opt_in /\ p2.opt_in) =>
              FracEq(r.score, Min100(FracAdd(WeightedSum(p1, p2, 1), bonus)))
        /\ FracLeq(Frac(0, 1), r.score)
        /\ FracLeq(r.score, Frac(100, 1))
        /\ FracEq(r.score, calculate_compatibility_score(p2, p1).score)

\* two different opted-in profiles are scored, a category overlaps in part
\* and the score is strictly between 0 and 100
C12_Witness ==
  /\ last.entry = "calculate_compatibility_score"
  /\ last.email # last.message
  /\ profiles[_get_profile_path(last.email)].opt_in
  /\ profiles[_get_profile_path(last.message)].opt_in
  /\ \E c \in WeightedCategories :
        LET A == SetOf(profiles[_get_profile_path(last.email)].traits[c])
            B == SetOf(profiles[_get_profile_path(last.message)].traits[c])
        IN  A \cap B # {} /\ Cardinality(A \cap B) < Max(Cardinality(A), Cardinality(B))
  /\ ~FracLeq(last.response.score, Frac(0, 1))
  /\ ~FracLeq(Frac(100, 1), last.response.score)

(***************************************************************************)
(* qa.py: retrieve                                                         *)
(* A passage is given by its tradition; the vector store lists the         *)
(* passages by decreasing similarity to the question.                      *)
(***************************************************************************)
AllTraditions == "All Traditions"

StoreTraditions == {"Christianity", "Islam", "Buddhism"}

NoFilter == [kind |-> "none", value |-> <<>>]

\* db.similarity_search(question, k=k, filter=...): the k most similar
\* passages among those that pass the filter
RECURSIVE Filtered(_, _)
Filtered(store, filter) ==
  IF store = <<>> THEN <<>>
  ELSE LET passes == CASE filter.kind = "none" -> TRUE
                       [] filter.kind = "equality" -> Head(store) = filter.value
                       [] filter.kind = "membership" -> InSeq(Head(store), filter.value)
       IN  (IF passes THEN <<Head(store)>> ELSE <<>>)
             \o Filtered(Tail(store), filter)

similarity_search(store, k, filter) ==
  LET f == Filtered(store, filter)
  IN  [filter |-> filter,
       docs |-> IF Len(f) <= k THEN f ELSE SubSeq(f, 1, k)]

\* traditions None and traditions [] are both written <<>>
retrieve_first_only(store, traditions, k) ==
  IF traditions # <<>> /\ Len(traditions) > 0 /\ ~InSeq(AllTraditions, traditions)
    THEN similarity_search(store, k,
                           [kind |-> "equality", value |-> traditions[1]])
    ELSE similarity_search(store, k, NoFilter)

retrieve(store, traditions, k) ==
  IF traditions # <<>> /\ Len(traditions) > 0 /\ ~InSeq(AllTraditions, traditions)
    THEN IF Len(traditions) = 1
           THEN similarity_search(store, k,
                                  [kind |-> "equality", value |-> traditions[1]])
           ELSE similarity_search(store, k,
                                  [kind |-> "membership", value |-> traditions])
    ELSE similarity_search(store, k, NoFilter)

\* the vector stores, the traditions asked for and the values of k
RECURSIVE SeqsUpTo(_, _)
SeqsUpTo(S, n) ==
  IF n = 0 THEN {<<>>}
  ELSE LET shorter == SeqsUpTo(S, n - 1)
       IN  shorter \cup { Append(s, x) : s \in shorter, x \in S }

Stores == SeqsUpTo(StoreTraditions, MaxDocs)

TraditionInputs ==
  { <<>>, <<AllTraditions>>, <<"Christianity">>, <<"Islam">>,
    <<"Christianity","Islam">>, <<"Islam","Islam">>,
    <<"Christianity",AllTraditions>> }

\* retrieve(question, traditions, k) on a vector store
Retrieve(store, traditions, k) ==
  LET r == retrieve(store, traditions, k)
  IN  /\ last' = [NoRequest EXCEPT !.entry = "retrieve", !.route = r.filter.kind,
                                   !.message = traditions, !.response = store,
                                   !.docs = r.docs, !.nRetrieve = k]
      /\ UNCHANGED <<configVars, chatVars, ag, authVars, communityVars>>

InitRetrieval == InitCommunity /\ ~USE_SUPABASE

NextRetrieval ==
  \E store \in Stores, traditions \in TraditionInputs, k \in 1..MaxDocs :
     Retrieve(store, traditions, k)

SpecRetrieval == InitRetrieval /\ [][NextRetrieval]_vars

\* C13: retrieve searches without a filter when traditions is None, empty or
\* contains 'All Traditions', with an equality filter on the one tradition
\* when exactly one is asked for, and with a membership filter on the list
\* when several are; the passages returned are the k most similar that pass
\* the filter, so with a filter each of them has a tradition of the list.
C13_FilterWhenRequested ==
  last.entry = "retrieve" =>
    LET traditions == last.message
        unfiltered == traditions = <<>> \/ InSeq(AllTraditions, traditions)
    IN  /\ last.route = (IF unfiltered THEN "none"
                         ELSE IF Len(traditions) = 1 THEN "equality"
                         ELSE "membership")
        /\ ~unfiltered => \A i \in DOMAIN last.docs : InSeq(last.docs[i], traditions)
        /\ Len(last.docs) <= last.nRetrieve
        /\ LET passing == { i \in DOMAIN last.response :
                              unfiltered \/ InSeq(last.response[i], traditions) }
           IN  /\ Len(last.docs) = IF Cardinality(passing) <= last.nRetrieve
                                     THEN Cardinality(passing) ELSE last.nRetrieve
               /\ \A j \in DOMAIN last.docs :
                    \E i \in passing :
                       /\ last.response[i] = last.docs[j]
                       /\ Cardinality({ h \in passing : h < i }) = j - 1

\* several traditions were asked for and a passage of another tradition,
\* more similar than one that is returned, was left out
C13_Witness ==
  /\ last.entry = "retrieve"
  /\ last.route = "membership"
  /\ last.docs # <<>>
  /\ ~InSeq(last.response[1], last.message)

(***************************************************************************)
(* api.py: POST /api/chat served by two workers. A request without         *)
(* authorization loads the memory of its session, asks the question and    *)
(* saves the memory; the two workers share the stored memories only.       *)
(***************************************************************************)
\* chat, lines 329-334: load_user_memory and one more visit
ChatLoad(w, message, session_id) ==
  LET c == comparison_of[message]
      user_id == get_user_id(session_id)
      loaded == load_user_memory(user_id)
  IN  /\ ~inflight[w].busy
      /\ ~(c.is_comparison /\ c.traditions # <<>>)
      /\ loaded.visit_count <= MaxVisits
      /\ inflight' = [inflight EXCEPT
                        ![w] = [busy |-> TRUE, user_id |-> user_id,
                                message |-> message,
                                user_memory |->
                                  [loaded EXCEPT !.visit_count = @ + 1]]]
      /\ last' = [NoRequest EXCEPT !.entry = "api_chat_load",
                                   !.message = message]
      /\ UNCHANGED <<configVars, memStore, stSession, ag, authVars,
                     communityVars>>

\* chat, lines 355-396: ask_question, then add_exchange and
\* save_user_memory if the answer is not a crisis response
ChatSave(w, docs, result) ==
  LET f == inflight[w]
      r == ask_question(f.message, docs, result)
      saved == ~r.raised /\ ~r.is_crisis
  IN  /\ f.busy
      /\ memStore' = IF saved
                       THEN save_user_memory(memStore, f.user_id,
                                             add_exchange(f.user_memory, f.message))
                       ELSE memStore
      /\ inflight' = [inflight EXCEPT ![w] = Idle]
      /\ last' = ChatRequest("api_chat_save", "ask_question", f.message, r, saved)
      /\ UNCHANGED <<configVars, stSession, ag, authVars, communityVars>>

InitWorkers == InitChat /\ ~USE_SUPABASE

NextWorkers ==
  \/ \E w \in Workers, m \in OverlapMessages : ChatLoad(w, m, SessionId)
  \/ \E w \in Workers, docs \in DocLists, result \in LLMResults :
        ChatSave(w, docs, result)

SpecWorkers == InitWorkers /\ [][NextWorkers]_vars

\* what is stored for a user
Stored(user_id) ==
  IF user_id \in DOMAIN memStore THEN memStore[user_id] ELSE DefaultMemory

\* C14: no update of user memory is lost, also when two requests of a user
\* overlap: each request that saves adds its visit and the themes of its
\* message to what is stored at that moment, so that after two requests the
\* stored visit_count has grown by 2 and the themes of both messages are
\* there.
C14_NoLostUpdate ==
  [][\A w \in Workers :
       (inflight[w].busy /\ ~inflight'[w].busy /\ last'.add_exchange) =>
          LET u == inflight[w].user_id
          IN  /\ memStore'[u].visit_count = Stored(u).visit_count + 1
              /\ \A i \in DOMAIN Stored(u).themes :
                    InSeq(Stored(u).themes[i], memStore'[u].themes)
              /\ \A t \in themes_of[inflight[w].message] :
                    InSeq(theme_keywords[t].theme, memStore'[u].themes)]_vars
====
